---- MODULE Spec2Model ----
(***************************************************************************)
(* A model of the job-email pipeline: the status normaliser                *)
(* (status_utils.py), the persistence layer, the extraction engine and the *)
(* run driver (parse_gmail_jobs.py).                                       *)
(*                                                                         *)
(* Python strings are modelled as sequences of one-character strings, so   *)
(* that strip(), lower(), find() and the `in` substring test are computed  *)
(* as the code computes them.                                              *)
(***************************************************************************)
EXTENDS Integers, Sequences, FiniteSets, TLC

VARIABLES
  \* status_utils.clean_status: its argument, its result, the result of
  \* applying it to that result
  rawIn, normalized, renormalized,
  \* the tables emails and applications, the sqlite_sequence entry of
  \* applications, and the wall clock CURRENT_TIMESTAMP reads
  emails, applications, seq, clock,
  \* about the last call of save_rows: its batch (when it committed), whether
  \* the committed call before it had the same batch, how it ended, and how
  \* many statements ran
  lastRows, repeated, lastResult, ranStatements,
  \* a call of process_email: where it is (idle, loop, returned), the idx of
  \* its mail, the loop's attempt, what each invoke_model ended with, the
  \* number of the response text, what extract_job_status_claude returned
  \* and what process_email returned
  xpc, xmail, attempt, invocations, response, extracted, llm_result,
  \* main: the phase it is in, the batches begun, its locals
  \* blacklist_keywords, last_id, emails (as fetched: positions of MailPool),
  \* new_page_token, emails_to_process, the skip counters, output_rows;
  \* the executor's next task, the finished futures not yet collected, the
  \* idx of the mails extract_job_status_claude was called for; the files
  \* last_processed_id.txt and next_page_token.txt
  mpc, batchNo, blacklist_keywords, last_id, fetched, new_page_token,
  emails_to_process, skipped_blacklist, skipped_prefilter,
  skipped_not_relevant, output_rows,
  nextTask, completed, submitted, last_processed_id_txt, next_page_token_txt,
  \* main's local start_page_token
  start_page_token,
  \* a call of get_job_emails: where it is (idle, while, for, page_end,
  \* returned, list_raised, get_raised), the provider's listing for the query (positions of
  \* MailPool), the arguments max_total and start_page_token, the locals
  \* next_page_token, fetched, emails, results and the position of the for
  \* loop in results['messages'], the messages.list calls made so far, and
  \* the payload of the last msg_detail
  gpc, mailbox, max_total, start_token, next_page_token, n_fetched,
  job_emails, results, msg_pos, list_calls, msg_detail

statusVars == <<rawIn, normalized, renormalized>>
dbVars == <<emails, applications, seq, clock, lastRows, repeated, lastResult,
            ranStatements>>
extractVars == <<xpc, xmail, attempt, invocations, response, extracted,
                 llm_result>>
mainVars == <<mpc, batchNo, blacklist_keywords, last_id, fetched,
              new_page_token, emails_to_process, skipped_blacklist, skipped_prefilter,
              skipped_not_relevant, output_rows, nextTask, completed,
              submitted, last_processed_id_txt, next_page_token_txt,
              start_page_token>>
fetchVars == <<gpc, mailbox, max_total, start_token, next_page_token,
               n_fetched, job_emails, results, msg_pos, list_calls,
               msg_detail>>
vars == <<statusVars, dbVars, extractVars, mainVars, fetchVars>>

(***************************************************************************)
(* Strings                                                                 *)
(***************************************************************************)
Alphabet ==
  [ upper |->
    <<"A","B","C","D","E","F","G","H","I","J","K","L","M","N","O","P","Q","R","S","T","U","V","W","X","Y","Z">>,
    lower |->
    <<"a","b","c","d","e","f","g","h","i","j","k","l","m","n","o","p","q","r","s","t","u","v","w","x","y","z">> ]
Whitespace == {" ", "\t", "\n", "\r"}

\* str.lower() on one character
LowerChar(c) ==
  IF \E i \in 1..Len(Alphabet.upper) : Alphabet.upper[i] = c
    THEN Alphabet.lower[CHOOSE i \in 1..Len(Alphabet.upper) : Alphabet.upper[i] = c]
    ELSE c

UpperChar(c) ==
  IF \E i \in 1..Len(Alphabet.lower) : Alphabet.lower[i] = c
    THEN Alphabet.upper[CHOOSE i \in 1..Len(Alphabet.lower) : Alphabet.lower[i] = c]
    ELSE c

\* a sequence given as a function, as the tuple of its elements
AsTuple(f) == f \o << >>

\* str.lower()
Lower(s) == AsTuple([i \in 1..Len(s) |-> LowerChar(s[i])])

\* str.upper()
Upper(s) == AsTuple([i \in 1..Len(s) |-> UpperChar(s[i])])

\* str.strip(): drop leading and trailing whitespace
Strip(s) ==
  IF \A i \in 1..Len(s) : s[i] \in Whitespace
    THEN << >>
    ELSE LET first == CHOOSE i \in 1..Len(s) :
                        /\ s[i] \notin Whitespace
                        /\ \A j \in 1..(i-1) : s[j] \in Whitespace
             last  == CHOOSE i \in 1..Len(s) :
                        /\ s[i] \notin Whitespace
                        /\ \A j \in (i+1)..Len(s) : s[j] \in Whitespace
         IN  SubSeq(s, first, last)

\* the Python test `word in text` on strings
Contains(text, word) ==
  \E i \in 0..(Len(text) - Len(word)) : SubSeq(text, i + 1, i + Len(word)) = word

\* min(a, b)
Min(a, b) == IF a < b THEN a ELSE b

\* all strings over alphabet `cs` of length at most n
StringsUpTo(cs, n) == UNION {[1..k -> cs] : k \in 0..n}


(***************************************************************************)
(* Python values as they come out of json.loads: a tag t and a payload v.  *)
(***************************************************************************)
PyNone     == [t |-> "null", v |-> << >>]
PyStr(s)   == [t |-> "str",  v |-> s]
PyBool(b)  == [t |-> "bool", v |-> b]
PyNum(n)   == [t |-> "num",  v |-> n]
PyList(l)  == [t |-> "arr",  v |-> l]
PyDict(f)  == [t |-> "obj",  v |-> f]

\* bool(x)
Truthy(x) ==
  CASE x.t = "null" -> FALSE
    [] x.t = "str"  -> Len(x.v) > 0
    [] x.t = "bool" -> x.v
    [] x.t = "num"  -> x.v # 0
    [] x.t = "arr"  -> Len(x.v) > 0
    [] x.t = "obj"  -> Len(x.v) > 0

(***************************************************************************)
(* status_utils.py                                                         *)
(***************************************************************************)
s_applied ==
  <<"a","p","p","l","i","e","d">>
s_interview ==
  <<"i","n","t","e","r","v","i","e","w">>
s_offer ==
  <<"o","f","f","e","r">>
s_rejected ==
  <<"r","e","j","e","c","t","e","d">>
s_unknown ==
  <<"u","n","k","n","o","w","n">>

CANONICAL == {s_applied, s_interview, s_offer, s_rejected, s_unknown}

\* the dict literal, as its (key, value) items
STATUS_MAP ==
  << << <<"a","p","p","l","i","c","a","t","i","o","n"," ","r","e","c","e","i","v","e","d">>,
        s_applied >>,
     << <<"a","p","p","l","i","e","d">>,
        s_applied >>,
     << <<"a","p","p","l","i","e","d"," ","f","o","r">>,
        s_applied >>,
     << <<"s","u","b","m","i","t","t","e","d">>,
        s_applied >>,
     << <<"a","p","p","l","i","c","a","t","i","o","n"," ","s","u","b","m","i","t","t","e","d">>,
        s_applied >>,
     << <<"i","n","t","e","r","v","i","e","w"," ","i","n","v","i","t","e">>,
        s_interview >>,
     << <<"s","c","h","e","d","u","l","e","d"," ","i","n","t","e","r","v","i","e","w">>,
        s_interview >>,
     << <<"i","n","t","e","r","v","i","e","w"," ","s","c","h","e","d","u","l","e","d">>,
        s_interview >>,
     << <<"i","n","t","e","r","v","i","e","w">>,
        s_interview >>,
     << <<"r","e","j","e","c","t","i","o","n">>,
        s_rejected >>,
     << <<"d","e","c","l","i","n","e","d">>,
        s_rejected >>,
     << <<"r","e","j","e","c","t","e","d">>,
        s_rejected >>,
     << <<"n","o","t"," ","s","e","l","e","c","t","e","d">>,
        s_rejected >>,
     << <<"o","f","f","e","r">>,
        s_offer >>,
     << <<"o","t","h","e","r">>,
        s_unknown >>,
     << <<>>,
        s_unknown >> >>


\* dict.get(key, default) on a dict given as its items
DictGet(items, key, default) ==
  IF \E i \in 1..Len(items) : items[i][1] = key
    THEN items[CHOOSE i \in 1..Len(items) : items[i][1] = key][2]
    ELSE default

\* clean_status raises AttributeError on .strip() of a truthy non-string
clean_status_raises(raw_status) == Truthy(raw_status) /\ raw_status.t # "str"

\* the variant of the key that takes the raw status as written
status_key_as_written(raw_status) ==
  IF Truthy(raw_status) THEN raw_status.v ELSE << >>

\* (raw_status or "").strip().lower(), for the values on which it does not raise
status_key(raw_status) ==
  Lower(Strip(IF Truthy(raw_status) THEN raw_status.v ELSE << >>))

\* the variant of clean_status that hands an unrecognised key back
clean_status_passthrough(raw_status) ==
  DictGet(STATUS_MAP, status_key(raw_status), status_key(raw_status))

clean_status(raw_status) ==
  DictGet(STATUS_MAP, status_key(raw_status), s_unknown)

(***************************************************************************)
(* Raw statuses the model draws from: every key of STATUS_MAP and its      *)
(* values, other words, each as written, upper-cased and capitalised per   *)
(* word, padded with whitespace; every short string over a small alphabet; *)
(* None.                                                                   *)
(***************************************************************************)
MaxPad == 1
MaxStatusLen == 2

\* the strings of the raw statuses, of the rows and of the messages
Str ==
  [ Interview_Scheduled |->
      <<"I","n","t","e","r","v","i","e","w"," ","S","c","h","e","d","u","l","e","d">>,
    xyz_unexpected |-> <<"x","y","z","-","u","n","e","x","p","e","c","t","e","d">>,
    hired |-> <<"h","i","r","e","d">>,
    not_selected |-> <<"n","o","t"," "," ","s","e","l","e","c","t","e","d">>,
    m1 |-> <<"m","1">>,
    m2 |-> <<"m","2">>,
    Acme |-> <<"A","c","m","e">>,
    Beta |-> <<"B","e","t","a">>,
    Engineer |-> <<"E","n","g">>,
    date1 |-> <<"5","/","1">>,
    ok |-> <<"o","k">>,
    subj1 |-> <<"S","1">>,
    subj2 |-> <<"S","2">>,
    hr |-> <<"h","r">>,
    hdr_date |-> <<"W","e","d">>,
    iso |-> <<"2","4">>,
    subject_acme |-> <<"Y","o","u","r"," ","a","p","p","l","i","c","a",
        "t","i","o","n"," ","t","o"," ","A","c","m","e">>,
    subject_rental |-> <<"5","0","%"," ","o","f","f"," ","y","o","u","r",
        " ","n","e","x","t"," ","r","e","n","t","a","l"," ","a","p","p",
        "l","i","c","a","t","i","o","n","!">>,
    subject_news |-> <<"W","e","e","k","l","y"," ","n","e","w","s">>,
    subject_alert |-> <<"J","o","b"," ","a","l","e","r","t">>,
    from_acme |-> <<"h","r","@","a","c","m","e",".","c","o","m">>,
    from_rental |-> <<"d","e","a","l","s","@","R","e","n","t","a","l","s",
        ".","c","o","m">>,
    from_news |-> <<"n","e","w","s","@","x",".","o","r","g">>,
    from_alert |-> <<"N","o","R","e","p","l","y","@","J","o","b","S","p",
        "a","m",".","c","o","m">>,
    body_acme |-> <<"T","h","a","n","k","s">>,
    body_rental |-> <<"S","a","v","e"," ","b","i","g"," ","t","o","d","a",
        "y",".">>,
    body_news |-> <<"T","o","p"," ","s","t","o","r","i","e","s">>,
    body_alert |-> <<"N","e","w"," ","r","o","l","e","s">>,
    id3 |-> <<"m","3">>,
    id4 |-> <<"m","4">>,
    date_header |-> <<"1"," ","M","a","y"," ","2","0","2","4"," ","9",":",
        "0","0">>,
    date_iso |-> <<"2","0","2","4","-","0","5","-","0","1","T","0","9",
        ":","0","0",":","0","0">>,
    line_jobspam |-> <<" ","J","o","b","S","p","a","m","\n">>,
    line_rental |-> <<"r","e","n","t","a","l","\n">>,
    line_blank |-> <<" ","\n">> ]

RawStatuses ==
  LET words == {STATUS_MAP[i][1] : i \in 1..Len(STATUS_MAP)} \cup CANONICAL
                 \cup {Str.Interview_Scheduled, Str.xyz_unexpected,
                       Str.hired, Str.not_selected}
      pads  == StringsUpTo({" ", "\n"}, MaxPad)
      strings ==
        {p \o w \o q : p \in pads, q \in pads,
                       w \in words \cup {Upper(x) : x \in words}}
          \cup StringsUpTo({"o", "F", " "}, MaxStatusLen)
  IN  {PyNone} \cup {PyStr(x) : x \in strings}

(***************************************************************************)
(* The normaliser applied to a raw status, and again to its own result.    *)
(***************************************************************************)
\* the value of a result variable before the call has run
NotRun == << "<not run>" >>

\* before the call, for the raw statuses it may be given
StatusStart(raws) ==
  /\ rawIn \in raws
  /\ normalized = NotRun
  /\ renormalized = NotRun

\* normalized = clean_status(rawIn)
Normalize ==
  /\ normalized = NotRun
  /\ ~clean_status_raises(rawIn)
  /\ normalized' = clean_status(rawIn)
  /\ UNCHANGED <<rawIn, renormalized>>
  /\ UNCHANGED <<dbVars, extractVars, mainVars, fetchVars>>

\* renormalized = clean_status(normalized)
Renormalize ==
  /\ normalized # NotRun
  /\ renormalized = NotRun
  /\ renormalized' = clean_status(PyStr(normalized))
  /\ UNCHANGED <<rawIn, normalized>>
  /\ UNCHANGED <<dbVars, extractVars, mainVars, fetchVars>>

(***************************************************************************)
(* parse_gmail_jobs.py: str(), "; ".join() and json.dumps() as _clean      *)
(* uses them                                                               *)
(***************************************************************************)
s_digits ==
  <<"0","1","2","3","4","5","6","7","8","9">>

RECURSIVE IntToStr(_)
\* str(n) of an int n >= 0
IntToStr(n) ==
  IF n < 10 THEN << s_digits[n + 1] >>
            ELSE IntToStr(n \div 10) \o << s_digits[(n % 10) + 1] >>

RECURSIVE JoinWith(_, _)
\* sep.join(parts)
JoinWith(sep, parts) ==
  IF Len(parts) = 0 THEN << >>
  ELSE IF Len(parts) = 1 THEN parts[1]
  ELSE parts[1] \o sep \o JoinWith(sep, Tail(parts))

RECURSIVE json_dumps(_)
\* json.dumps(value), for strings that need no escaping
json_dumps(value) ==
  CASE value.t = "null" -> <<"n","u","l","l">>
    [] value.t = "bool" -> IF value.v THEN <<"t","r","u","e">>
                                      ELSE <<"f","a","l","s","e">>
    [] value.t = "num"  -> IntToStr(value.v)
    [] value.t = "str"  -> <<"\"">> \o value.v \o <<"\"">>
    [] value.t = "arr"  ->
         <<"[">> \o JoinWith(<<",", " ">>,
                             AsTuple([i \in 1..Len(value.v) |-> json_dumps(value.v[i])]))
                 \o <<"]">>
    [] value.t = "obj"  ->
         <<"{">> \o JoinWith(<<",", " ">>,
                             AsTuple([i \in 1..Len(value.v) |->
                                <<"\"">> \o value.v[i][1] \o <<"\"", ":", " ">>
                                  \o json_dumps(value.v[i][2])]))
                 \o <<"}">>

\* str(v)
PyStrOf(value) ==
  CASE value.t = "str"  -> value.v
    [] value.t = "null" -> <<"N","o","n","e">>
    [] value.t = "bool" -> IF value.v THEN <<"T","r","u","e">>
                                      ELSE <<"F","a","l","s","e">>
    [] value.t = "num"  -> IntToStr(value.v)
    [] OTHER            -> json_dumps(value)

\* save_rows._clean
_clean(value) ==
  CASE value.t = "null" -> PyStr(<< >>)
    [] value.t = "arr"  ->
         PyStr(JoinWith(<<";", " ">>,
                        AsTuple([i \in 1..Len(value.v) |-> PyStrOf(value.v[i])])))
    [] value.t = "obj"  -> PyStr(json_dumps(value))
    [] OTHER            -> value

(***************************************************************************)
(* parse_gmail_jobs.py: the tables and save_rows                           *)
(***************************************************************************)
\* cleaned_row = {k: _clean(v) for k, v in row.items() if k != "applications"}
CleanedRow(row) ==
  [id |-> _clean(row.id), email_num |-> _clean(row.email_num),
   subject |-> _clean(row.subject), from |-> _clean(row.from),
   date_email |-> _clean(row.date_email),
   date_email_iso |-> _clean(row.date_email_iso),
   company |-> _clean(row.company), job_title |-> _clean(row.job_title),
   status |-> _clean(row.status), parsed_date |-> _clean(row.parsed_date),
   reason |-> _clean(row.reason), error |-> _clean(row.error)]

\* the variant in which every id reads the entry of the batch's first row
applications_of_first_row(rows, id) == rows[1].applications

\* applications_by_email after the first loop: the entry of the last row
\* that carries the id
applications_by_email(rows, id) ==
  LET last == CHOOSE i \in 1..Len(rows) :
                /\ rows[i].id = id
                /\ \A j \in (i+1)..Len(rows) : rows[j].id # id
  IN  rows[last].applications

NewEmail(c, now) ==
  [id |-> c.id, email_num |-> c.email_num, subject |-> c.subject,
   sender |-> c.from, date_email |-> c.date_email,
   date_email_iso |-> c.date_email_iso, company |-> c.company,
   job_title |-> c.job_title, status |-> c.status,
   parsed_date |-> c.parsed_date, reason |-> c.reason,
   error |-> c.error, created_at |-> now]

\* INSERT OR REPLACE INTO emails: the stored row is dropped and written anew
UpsertEmailReplacing(em, c, now) ==
  {e \in em : e.id # c.id} \cup {NewEmail(c, now)}

\* INSERT INTO emails ... ON CONFLICT(id) DO UPDATE SET ... for one row
UpsertEmail(em, c, now) ==
  IF \E e \in em : e.id = c.id
    THEN LET e == CHOOSE x \in em : x.id = c.id
         IN  (em \ {e}) \cup
               {[e EXCEPT !.subject = c.subject,
                          !.sender = c.from,
                          !.date_email_iso = c.date_email_iso,
                          !.company = c.company,
                          !.job_title = c.job_title,
                          !.status = c.status,
                          !.parsed_date = c.parsed_date,
                          !.reason = c.reason,
                          !.error = c.error]}
    ELSE em \cup {NewEmail(c, now)}

\* DELETE FROM applications WHERE email_id = ?
DeleteApplicationsKeepingAll(apps, id) == apps

DeleteApplications(apps, id) == {a \in apps : a.email_id # id}

\* the second loop without its `if not apps` branch
AppsOfRowNoFallback(rows, row) == applications_by_email(rows, row.id)

\* the job mentions written for one row: those of applications_by_email, or
\* one built from the row's own flat fields when there are none
AppsOfRow(rows, row) ==
  LET apps == applications_by_email(rows, row.id)
  IN  IF Len(apps) = 0
        THEN << [company |-> row.company, job_title |-> row.job_title,
                 status |-> row.status, parsed_date |-> row.parsed_date,
                 reason |-> row.reason, error |-> row.error] >>
        ELSE apps

\* the variant that takes email_id from the row's email_num
ApplicationParamsByNumber(row, app) ==
  [email_id |-> _clean(row.email_num), company |-> _clean(app.company),
   job_title |-> _clean(app.job_title), status |-> _clean(app.status),
   parsed_date |-> _clean(app.parsed_date), reason |-> _clean(app.reason),
   error |-> _clean(app.error)]

\* one entry of the list `applications`
ApplicationParams(row, app) ==
  [email_id |-> _clean(row.id), company |-> _clean(app.company),
   job_title |-> _clean(app.job_title), status |-> _clean(app.status),
   parsed_date |-> _clean(app.parsed_date), reason |-> _clean(app.reason),
   error |-> _clean(app.error)]

RowApplications(row, apps) ==
  AsTuple([j \in 1..Len(apps) |-> ApplicationParams(row, apps[j])])

RECURSIVE BuildApplications(_, _)
\* the list `applications` built by the second loop over rows[i..]
BuildApplications(rows, i) ==
  IF i > Len(rows) THEN << >>
  ELSE RowApplications(rows[i], AppsOfRow(rows, rows[i]))
         \o BuildApplications(rows, i + 1)

\* INSERT INTO applications ...: the AUTOINCREMENT id is one more than the
\* largest id ever used
InsertApplication(d, app, now) ==
  [d EXCEPT !.seq = d.seq + 1,
            !.applications = d.applications \cup
               {[id |-> d.seq + 1, email_id |-> app.email_id,
                 company |-> app.company, job_title |-> app.job_title,
                 status |-> app.status, parsed_date |-> app.parsed_date,
                 reason |-> app.reason, error |-> app.error,
                 created_at |-> now]}]

\* the statements of the transaction, in the order the three executemany
\* calls run them
StatementsOf(op, params) ==
  AsTuple([i \in 1..Len(params) |-> [op |-> op, arg |-> params[i]]])

Statements(rows) ==
  StatementsOf("upsert", AsTuple([i \in 1..Len(rows) |-> CleanedRow(rows[i])]))
    \o StatementsOf("delete", AsTuple([i \in 1..Len(rows) |-> CleanedRow(rows[i])]))
    \o StatementsOf("insert", BuildApplications(rows, 1))

ExecOne(d, st, now) ==
  CASE st.op = "upsert" -> [d EXCEPT !.emails = UpsertEmail(d.emails, st.arg, now)]
    [] st.op = "delete" ->
         [d EXCEPT !.applications = DeleteApplications(d.applications, st.arg.id)]
    [] st.op = "insert" -> InsertApplication(d, st.arg, now)

RECURSIVE Exec(_, _, _, _)
\* the tables after the first k statements
Exec(d, stmts, k, now) ==
  IF k = 0 THEN d
  ELSE ExecOne(Exec(d, stmts, k - 1, now), stmts[k], now)

\* leaving `with _db_lock, conn:` on an exception rolls the transaction
\* back: the tables are those before the call, whatever was executed
RollbackKeepsWork(before, working) == working

Rollback(before, working) == before

\* main: row = {...}, the flat columns taken from the first application
MkRow(id, idx, subject, sender, date, iso, applications_, reason, error) ==
  [id |-> PyStr(id), email_num |-> PyNum(idx), subject |-> PyStr(subject),
   from |-> PyStr(sender), date_email |-> PyStr(date),
   date_email_iso |-> PyStr(iso),
   company |-> IF Len(applications_) > 0 THEN applications_[1].company
                                         ELSE PyStr(<< >>),
   job_title |-> IF Len(applications_) > 0 THEN applications_[1].job_title
                                           ELSE PyStr(<< >>),
   status |-> IF Len(applications_) > 0 THEN applications_[1].status
                                        ELSE PyStr(<< >>),
   parsed_date |-> IF Len(applications_) > 0 THEN applications_[1].parsed_date
                                             ELSE PyStr(<< >>),
   reason |-> reason, error |-> error, applications |-> applications_]

(***************************************************************************)
(* The rows the calls of save_rows draw from: two message ids; for the     *)
(* first, extractions with one, two and no job mentions; for the second,   *)
(* one mention.  Reasons and errors are a string, None, a list and a dict,  *)
(* so that every branch of _clean runs.                                    *)
(***************************************************************************)
Mention(company, job_title, status, date, reason, error) ==
  [company |-> company, job_title |-> job_title, status |-> PyStr(status),
   parsed_date |-> date, reason |-> reason, error |-> error]

PoolRows ==
  LET ReasonList == PyList(<< PyStr(Str.ok), PyNum(12) >>)
      ErrorDict  == PyDict(<< << <<"c">>, PyNone >> >>)
  IN
  { MkRow(Str.m1, 1, Str.subj1, Str.hr, Str.hdr_date, Str.iso,
          << Mention(PyStr(Str.Acme), PyStr(Str.Engineer), s_applied, PyStr(Str.date1),
                     PyStr(Str.ok), PyStr(<< >>)) >>,
          PyStr(Str.ok), PyStr(<< >>)),
    MkRow(Str.m1, 2, Str.subj1, Str.hr, Str.hdr_date, Str.iso,
          << Mention(PyStr(Str.Acme), PyStr(Str.Engineer), s_interview, PyStr(<< >>),
                     ReasonList, PyStr(<< >>)),
             Mention(PyStr(Str.Beta), PyNone, s_offer, PyStr(<< >>),
                     ReasonList, PyStr(<< >>)) >>,
          ReasonList, PyStr(<< >>)),
    MkRow(Str.m1, 3, Str.subj1, Str.hr, Str.hdr_date, Str.iso, << >>, PyNone, ErrorDict),
    MkRow(Str.m2, 1, Str.subj2, Str.hr, Str.hdr_date, Str.iso,
          << Mention(PyStr(Str.Beta), PyStr(Str.Engineer), s_rejected, PyNone,
                     PyStr(Str.ok), PyStr(<< >>)) >>,
          PyStr(Str.ok), PyStr(<< >>)) }

\* the longest batch handed to save_rows
MaxBatch == 2
\* the largest AUTOINCREMENT id a call of save_rows may reach
MaxSeq == 4
\* the latest CURRENT_TIMESTAMP
MaxClock == 1

Batches == UNION {[1..n -> PoolRows] : n \in 0..MaxBatch}

\* Statements(rows) for every batch of Batches, computed once
BatchStatements == [rows \in Batches |-> Statements(rows)] @@ << >>

DbNow == [emails |-> emails, applications |-> applications, seq |-> seq]

DbInit ==
  /\ emails = {}
  /\ applications = {}
  /\ seq = 0
  /\ clock = 0
  /\ lastRows = << >>
  /\ repeated = FALSE
  /\ lastResult = "none"
  /\ ranStatements = 0

\* the number of rows the third executemany inserts
InsertCount(rows, stmts) == Len(stmts) - 2 * Len(rows)

\* save_rows(conn, rows) at time `now`, stmts being Statements(rows); `ran`
\* is the number of statements that ran: all of them, or those before the
\* one that raised
SaveRowsCall(rows, stmts, ran, now) ==
  \E done \in {IF ran = Len(stmts)
                 THEN Exec(DbNow, stmts, ran, now)
                 ELSE Rollback(DbNow, Exec(DbNow, stmts, ran, now))} :
    /\ clock' = now
    /\ ranStatements' = ran
    /\ repeated' = (ran = Len(stmts) /\ Len(rows) > 0 /\ lastResult = "committed"
                      /\ rows = lastRows)
    /\ IF Len(rows) = 0
         THEN /\ UNCHANGED <<emails, applications, seq>>
              /\ lastResult' = "empty"
              /\ lastRows' = << >>
         ELSE /\ emails' = done.emails
              /\ applications' = done.applications
              /\ seq' = done.seq
              /\ lastResult' = IF ran = Len(stmts) THEN "committed" ELSE "rolledback"
              /\ lastRows' = IF ran = Len(stmts) THEN rows ELSE << >>

\* a call of save_rows that returns
SaveRows ==
  /\ \E rows \in Batches :
       \E stmts \in {BatchStatements[rows]} :
         /\ seq + InsertCount(rows, stmts) <= MaxSeq
         /\ \E now \in clock..MaxClock : SaveRowsCall(rows, stmts, Len(stmts), now)
  /\ UNCHANGED <<statusVars, extractVars, mainVars, fetchVars>>

\* a call of save_rows in which a statement raises
SaveRowsFails ==
  /\ \E rows \in Batches \ {<< >>} :
       \E stmts \in {BatchStatements[rows]} :
         /\ seq + InsertCount(rows, stmts) <= MaxSeq
         /\ \E now \in clock..MaxClock, ran \in 0..(Len(stmts) - 1) :
               SaveRowsCall(rows, stmts, ran, now)
  /\ UNCHANGED <<statusVars, extractVars, mainVars, fetchVars>>

(***************************************************************************)
(* json.loads, on texts without string escapes and with integer numbers.   *)
(* A parse yields [ok, val, pos, msg]: the value and the position after    *)
(* it, or the JSONDecodeError's message and position.                      *)
(***************************************************************************)
Digits == {"0", "1", "2", "3", "4", "5", "6", "7", "8", "9"}

\* the first position at or after i that holds no whitespace
SkipWs(s, i) ==
  IF \E j \in i..Len(s) : s[j] \notin Whitespace
    THEN CHOOSE j \in i..Len(s) :
           /\ s[j] \notin Whitespace
           /\ \A k \in i..(j-1) : s[k] \in Whitespace
    ELSE Len(s) + 1

\* whether the text `word` stands at position i of s
At(s, i, word) == i + Len(word) - 1 <= Len(s) /\ SubSeq(s, i, i + Len(word) - 1) = word

ParseOk(val, pos) == [ok |-> TRUE, val |-> val, pos |-> pos, msg |-> << >>]
ParseError(msg, pos) == [ok |-> FALSE, val |-> PyNone, pos |-> pos, msg |-> msg]

\* the messages of a JSONDecodeError, the reason and error of a failure
\* result, str(e) of the UnknownServiceError an old boto3 raises from
\* boto3.client, and the body of a message that does not decode
Message ==
  [ expecting_value |-> <<"E","x","p","e","c","t","i","n","g"," ","v","a",
        "l","u","e">>,
    extra_data |-> <<"E","x","t","r","a"," ","d","a","t","a">>,
    unterminated_string |-> <<"U","n","t","e","r","m","i","n","a","t","e",
        "d"," ","s","t","r","i","n","g"," ","s","t","a","r","t","i","n",
        "g"," ","a","t">>,
    expecting_name |-> <<"E","x","p","e","c","t","i","n","g"," ","p","r",
        "o","p","e","r","t","y"," ","n","a","m","e"," ","e","n","c","l",
        "o","s","e","d"," ","i","n"," ","d","o","u","b","l","e"," ","q",
        "u","o","t","e","s">>,
    expecting_colon |-> <<"E","x","p","e","c","t","i","n","g"," ","'",":",
        "'"," ","d","e","l","i","m","i","t","e","r">>,
    expecting_comma |-> <<"E","x","p","e","c","t","i","n","g"," ","'",",",
        "'"," ","d","e","l","i","m","i","t","e","r">>,
    parsing_failed |-> <<"P","a","r","s","i","n","g"," ","f","a","i","l","e","d">>,
    unknown_service |-> <<"U","n","k","n","o","w","n"," ","s","e","r","v","i","c","e">>,
    unable |-> <<"(","U","n","a","b","l","e"," ","t","o"," ","d","e","c","o","d",
        "e"," ","e","m","a","i","l"," ","b","o","d","y",")">> ]

\* a string literal whose opening quote is at i
ParseString(s, i) ==
  IF \E j \in (i+1)..Len(s) : s[j] = "\""
    THEN LET j == CHOOSE j \in (i+1)..Len(s) :
                    s[j] = "\"" /\ \A k \in (i+1)..(j-1) : s[k] # "\""
         IN  ParseOk(PyStr(SubSeq(s, i + 1, j - 1)), j + 1)
    ELSE ParseError(Message.unterminated_string, i - 1)

RECURSIVE DigitsValue(_)
\* int() of a string of digits
DigitsValue(ds) ==
  IF Len(ds) = 0 THEN 0
  ELSE 10 * DigitsValue(SubSeq(ds, 1, Len(ds) - 1))
         + (CHOOSE d \in 0..9 : s_digits[d + 1] = ds[Len(ds)])

\* an integer literal whose first digit is at i
ParseNumber(s, i) ==
  LET end == IF \E j \in i..Len(s) : s[j] \notin Digits
               THEN (CHOOSE j \in i..Len(s) :
                       s[j] \notin Digits /\ \A k \in i..(j-1) : s[k] \in Digits) - 1
               ELSE Len(s)
  IN  ParseOk(PyNum(DigitsValue(SubSeq(s, i, end))), end + 1)

\* d[key] = val on a dict given as its items
DictSet(items, key, val) ==
  IF \E i \in 1..Len(items) : items[i][1] = key
    THEN LET i == CHOOSE i \in 1..Len(items) : items[i][1] = key
         IN  [items EXCEPT ![i] = <<key, val>>]
    ELSE Append(items, <<key, val>>)

RECURSIVE ParseValue(_, _), ParseMembers(_, _, _), ParseElements(_, _, _)

\* the value that starts at i (whitespace already skipped)
ParseValue(s, i) ==
  IF i > Len(s) THEN ParseError(Message.expecting_value, i - 1)
  ELSE IF s[i] = "\"" THEN ParseString(s, i)
  ELSE IF s[i] = "{" THEN
         LET j == SkipWs(s, i + 1)
         IN  IF j <= Len(s) /\ s[j] = "}" THEN ParseOk(PyDict(<< >>), j + 1)
                                           ELSE ParseMembers(s, j, << >>)
  ELSE IF s[i] = "[" THEN
         LET j == SkipWs(s, i + 1)
         IN  IF j <= Len(s) /\ s[j] = "]" THEN ParseOk(PyList(<< >>), j + 1)
                                           ELSE ParseElements(s, j, << >>)
  ELSE IF At(s, i, <<"t","r","u","e">>) THEN ParseOk(PyBool(TRUE), i + 4)
  ELSE IF At(s, i, <<"f","a","l","s","e">>) THEN ParseOk(PyBool(FALSE), i + 5)
  ELSE IF At(s, i, <<"n","u","l","l">>) THEN ParseOk(PyNone, i + 4)
  ELSE IF s[i] \in Digits THEN ParseNumber(s, i)
  ELSE ParseError(Message.expecting_value, i - 1)

\* the members of an object from position i on, `items` being those read
ParseMembers(s, i, items) ==
  IF i > Len(s) \/ s[i] # "\"" THEN ParseError(Message.expecting_name, i - 1)
  ELSE LET key == ParseString(s, i)
       IN  IF ~key.ok THEN key
           ELSE LET c == SkipWs(s, key.pos)
                IN  IF c > Len(s) \/ s[c] # ":" THEN ParseError(Message.expecting_colon, c - 1)
                    ELSE LET val == ParseValue(s, SkipWs(s, c + 1))
                         IN  IF ~val.ok THEN val
                             ELSE LET e == SkipWs(s, val.pos)
                                      now == DictSet(items, key.val.v, val.val)
                                  IN  IF e <= Len(s) /\ s[e] = "}"
                                        THEN ParseOk(PyDict(now), e + 1)
                                      ELSE IF e <= Len(s) /\ s[e] = ","
                                        THEN ParseMembers(s, SkipWs(s, e + 1), now)
                                      ELSE ParseError(Message.expecting_comma, e - 1)

\* the elements of an array from position i on, `elems` being those read
ParseElements(s, i, elems) ==
  LET val == ParseValue(s, i)
  IN  IF ~val.ok THEN val
      ELSE LET e == SkipWs(s, val.pos)
               now == Append(elems, val.val)
           IN  IF e <= Len(s) /\ s[e] = "]"
                 THEN ParseOk(PyList(now), e + 1)
               ELSE IF e <= Len(s) /\ s[e] = ","
                 THEN ParseElements(s, SkipWs(s, e + 1), now)
               ELSE ParseError(Message.expecting_comma, e - 1)

\* json.loads(s): a value, with nothing but whitespace around it
json_loads(s) ==
  LET r == ParseValue(s, SkipWs(s, 1))
  IN  IF ~r.ok THEN r
      ELSE IF SkipWs(s, r.pos) <= Len(s)
        THEN ParseError(Message.extra_data, SkipWs(s, r.pos) - 1)
      ELSE r

\* str(e) of a JSONDecodeError at 0-based position pos of a one-line text
DecodeErrorText(msg, pos) ==
  msg \o <<":"," ","l","i","n","e"," ","1"," ","c","o","l","u","m","n"," ">>
      \o IntToStr(pos + 1) \o <<" ","(","c","h","a","r"," ">> \o IntToStr(pos)
      \o <<")">>

(***************************************************************************)
(* The Extraction Engine: extract_job_status_claude and process_email.     *)
(***************************************************************************)
\* texts a model response can carry (content[0]["text"], "" when absent)
Text ==
    \* {"relevant": true, "reason": "ok", "jobs": [{"company": "Acme", "job_title": "Eng", "status": "Interview Scheduled", "date": "5/1"}], "error": ""}
  [ one_job |-> <<"{","\"","r","e","l","e","v","a","n","t","\"",":"," ",
        "t","r","u","e",","," ","\"","r","e","a","s","o","n","\"",":"," ",
        "\"","o","k","\"",","," ","\"","j","o","b","s","\"",":"," ","[",
        "{","\"","c","o","m","p","a","n","y","\"",":"," ","\"","A","c",
        "m","e","\"",","," ","\"","j","o","b","_","t","i","t","l","e",
        "\"",":"," ","\"","E","n","g","\"",","," ","\"","s","t","a","t",
        "u","s","\"",":"," ","\"","I","n","t","e","r","v","i","e","w"," ",
        "S","c","h","e","d","u","l","e","d","\"",","," ","\"","d","a","t",
        "e","\"",":"," ","\"","5","/","1","\"","}","]",","," ","\"","e",
        "r","r","o","r","\"",":"," ","\"","\"","}">>,
    \* {"relevant": true, "reason": "ok", "jobs": [{"company": "Acme", "status": "applied"}, {"company": "Beta", "status": "hired"}], "error": ""}
    two_jobs |-> <<"{","\"","r","e","l","e","v","a","n","t","\"",":"," ",
        "t","r","u","e",","," ","\"","r","e","a","s","o","n","\"",":"," ",
        "\"","o","k","\"",","," ","\"","j","o","b","s","\"",":"," ","[",
        "{","\"","c","o","m","p","a","n","y","\"",":"," ","\"","A","c",
        "m","e","\"",","," ","\"","s","t","a","t","u","s","\"",":"," ",
        "\"","a","p","p","l","i","e","d","\"","}",","," ","{","\"","c",
        "o","m","p","a","n","y","\"",":"," ","\"","B","e","t","a","\"",
        ","," ","\"","s","t","a","t","u","s","\"",":"," ","\"","h","i",
        "r","e","d","\"","}","]",","," ","\"","e","r","r","o","r","\"",
        ":"," ","\"","\"","}">>,
    \* {"relevant": false, "reason": "promo", "jobs": [], "error": ""}
    not_relevant |-> <<"{","\"","r","e","l","e","v","a","n","t","\"",":",
        " ","f","a","l","s","e",","," ","\"","r","e","a","s","o","n","\"",
        ":"," ","\"","p","r","o","m","o","\"",","," ","\"","j","o","b",
        "s","\"",":"," ","[","]",","," ","\"","e","r","r","o","r","\"",
        ":"," ","\"","\"","}">>,
    \* Here it is: {"relevant": false, "reason": "promo", "jobs": [], "error": ""} Done.
    wrapped |-> <<"H","e","r","e"," ","i","t"," ","i","s",":"," ","{",
        "\"","r","e","l","e","v","a","n","t","\"",":"," ","f","a","l","s",
        "e",","," ","\"","r","e","a","s","o","n","\"",":"," ","\"","p",
        "r","o","m","o","\"",","," ","\"","j","o","b","s","\"",":"," ",
        "[","]",","," ","\"","e","r","r","o","r","\"",":"," ","\"","\"",
        "}"," ","D","o","n","e",".">>,
    \* {"relevant": true, "company": "Acme", "job_title": "Eng", "status": "applied"}
    flat |-> <<"{","\"","r","e","l","e","v","a","n","t","\"",":"," ","t",
        "r","u","e",","," ","\"","c","o","m","p","a","n","y","\"",":"," ",
        "\"","A","c","m","e","\"",","," ","\"","j","o","b","_","t","i",
        "t","l","e","\"",":"," ","\"","E","n","g","\"",","," ","\"","s",
        "t","a","t","u","s","\"",":"," ","\"","a","p","p","l","i","e","d",
        "\"","}">>,
    \* {"relevant": true, "reason": "ok", "jobs": [], "error": ""}
    no_jobs |-> <<"{","\"","r","e","l","e","v","a","n","t","\"",":"," ",
        "t","r","u","e",","," ","\"","r","e","a","s","o","n","\"",":"," ",
        "\"","o","k","\"",","," ","\"","j","o","b","s","\"",":"," ","[",
        "]",","," ","\"","e","r","r","o","r","\"",":"," ","\"","\"","}">>,
    \* Sorry, I cannot help.
    prose |-> <<"S","o","r","r","y",","," ","I"," ","c","a","n","n","o",
        "t"," ","h","e","l","p",".">>,
    \* (the empty text)
    empty |-> << >>,
    \* 42
    number |-> <<"4","2">>,
    \* [1, 2]
    array |-> <<"[","1",","," ","2","]">>,
    \* null
    null |-> <<"n","u","l","l">>,
    \* {"relevant": true, "jobs": [
    truncated |-> <<"{","\"","r","e","l","e","v","a","n","t","\"",":"," ",
        "t","r","u","e",","," ","\"","j","o","b","s","\"",":"," ","[">>,
    \* {"relevant": false} {"jobs": []}
    two_objects |-> <<"{","\"","r","e","l","e","v","a","n","t","\"",":",
        " ","f","a","l","s","e","}"," ","{","\"","j","o","b","s","\"",":",
        " ","[","]","}">>,
    \* } {
    reversed |-> <<"}"," ","{">>,
    \* {}
    empty_object |-> <<"{","}">>,
    \* {"relevant": true, "reason": "ok", "jobs": "none", "error": ""}
    jobs_string |-> <<"{","\"","r","e","l","e","v","a","n","t","\"",":",
        " ","t","r","u","e",","," ","\"","r","e","a","s","o","n","\"",":",
        " ","\"","o","k","\"",","," ","\"","j","o","b","s","\"",":"," ",
        "\"","n","o","n","e","\"",","," ","\"","e","r","r","o","r","\"",
        ":"," ","\"","\"","}">>,
    \* {"relevant": true, "reason": "ok", "jobs": [{"company": "Acme", "status": 5}], "error": ""}
    status_number |-> <<"{","\"","r","e","l","e","v","a","n","t","\"",":",
        " ","t","r","u","e",","," ","\"","r","e","a","s","o","n","\"",":",
        " ","\"","o","k","\"",","," ","\"","j","o","b","s","\"",":"," ",
        "[","{","\"","c","o","m","p","a","n","y","\"",":"," ","\"","A",
        "c","m","e","\"",","," ","\"","s","t","a","t","u","s","\"",":",
        " ","5","}","]",","," ","\"","e","r","r","o","r","\"",":"," ",
        "\"","\"","}">>,
    \* {"relevant": true, "reason": "ok", "jobs": ["Acme"], "error": ""}
    job_string |-> <<"{","\"","r","e","l","e","v","a","n","t","\"",":",
        " ","t","r","u","e",","," ","\"","r","e","a","s","o","n","\"",":",
        " ","\"","o","k","\"",","," ","\"","j","o","b","s","\"",":"," ",
        "[","\"","A","c","m","e","\"","]",","," ","\"","e","r","r","o",
        "r","\"",":"," ","\"","\"","}">>,
    \* {"relevant": "no", "reason": "promo", "jobs": [], "error": ""}
    relevant_string |-> <<"{","\"","r","e","l","e","v","a","n","t","\"",
        ":"," ","\"","n","o","\"",","," ","\"","r","e","a","s","o","n",
        "\"",":"," ","\"","p","r","o","m","o","\"",","," ","\"","j","o",
        "b","s","\"",":"," ","[","]",","," ","\"","e","r","r","o","r",
        "\"",":"," ","\"","\"","}">>,
    \* {"relevant": true, "jobs": [], "company": "Beta", "date": "5/1"}
    flat_empty_list |-> <<"{","\"","r","e","l","e","v","a","n","t","\"",":"," ","t","r","u","e",
        ","," ","\"","j","o","b","s","\"",":"," ","[","]",","," ","\"","c","o",
        "m","p","a","n","y","\"",":"," ","\"","B","e","t","a","\"",","," ","\"",
        "d","a","t","e","\"",":"," ","\"","5","/","1","\"","}">>,
    \* {"relevant": true, "jobs": "none", "status": "offer"}
    flat_jobs_string |-> <<"{","\"","r","e","l","e","v","a","n","t","\"",":"," ","t","r","u","e",
        ","," ","\"","j","o","b","s","\"",":"," ","\"","n","o","n","e","\"",",",
        " ","\"","s","t","a","t","u","s","\"",":"," ","\"","o","f","f","e","r",
        "\"","}">>,
    \* {"relevant": true, "company": "Beta", "status": "offer", "jobs": [{"company": "Acme", "status": "applied"}]}
    jobs_and_flat |-> <<"{","\"","r","e","l","e","v","a","n","t","\"",":"," ","t","r","u","e",
        ","," ","\"","c","o","m","p","a","n","y","\"",":"," ","\"","B","e","t",
        "a","\"",","," ","\"","s","t","a","t","u","s","\"",":"," ","\"","o","f",
        "f","e","r","\"",","," ","\"","j","o","b","s","\"",":"," ","[","{","\"",
        "c","o","m","p","a","n","y","\"",":"," ","\"","A","c","m","e","\"",",",
        " ","\"","s","t","a","t","u","s","\"",":"," ","\"","a","p","p","l","i",
        "e","d","\"","}","]","}">> ]

ResponseTexts ==
  <<Text.one_job,
    Text.two_jobs,
    Text.not_relevant,
    Text.wrapped,
    Text.flat,
    Text.no_jobs,
    Text.prose,
    Text.empty,
    Text.number,
    Text.array,
    Text.null,
    Text.truncated,
    Text.two_objects,
    Text.reversed,
    Text.empty_object,
    Text.jobs_string,
    Text.status_number,
    Text.job_string,
    Text.relevant_string,
    Text.flat_empty_list,
    Text.flat_jobs_string,
    Text.jobs_and_flat>>

\* the keys of a result
Key ==
  [ company |-> <<"c","o","m","p","a","n","y">>,
    job_title |-> <<"j","o","b","_","t","i","t","l","e">>,
    status |-> <<"s","t","a","t","u","s">>,
    date |-> <<"d","a","t","e">>,
    relevant |-> <<"r","e","l","e","v","a","n","t">>,
    reason |-> <<"r","e","a","s","o","n">>,
    jobs |-> <<"j","o","b","s">>,
    error |-> <<"e","r","r","o","r">> ]

\* s.find(c): the 0-based index of the first c in s, -1 when there is none
Find(s, c) ==
  IF \E i \in 1..Len(s) : s[i] = c
    THEN (CHOOSE i \in 1..Len(s) : s[i] = c /\ \A k \in 1..(i-1) : s[k] # c) - 1
    ELSE -1

\* s.rfind(c): the 0-based index of the last c in s, -1 when there is none
RFind(s, c) ==
  IF \E i \in 1..Len(s) : s[i] = c
    THEN (CHOOSE i \in 1..Len(s) : s[i] = c /\ \A k \in (i+1)..Len(s) : s[k] # c) - 1
    ELSE -1

\* text[start:end] if start != -1 and end != 0 else text
json_text(text) ==
  LET start == Find(text, "{")
      end   == RFind(text, "}") + 1
  IN  IF start # -1 /\ end # 0 THEN SubSeq(text, start + 1, end) ELSE text

\* the result built when json.loads raises e
ParseFailure(e) ==
  PyDict(<< <<Key.company, PyStr(<< >>)>>, <<Key.job_title, PyStr(<< >>)>>,
            <<Key.status, PyStr(<< >>)>>, <<Key.date, PyStr(<< >>)>>,
            <<Key.relevant, PyBool(FALSE)>>, <<Key.reason, PyStr(Message.parsing_failed)>>,
            <<Key.error, PyStr(e)>> >>)

\* the result returned when the loop ends without a response
LoopFailure ==
  PyDict(<< <<Key.relevant, PyBool(FALSE)>>, <<Key.reason, PyStr(Message.parsing_failed)>>,
            <<Key.jobs, PyList(<< >>)>>, <<Key.error, PyStr(Message.parsing_failed)>> >>)

\* the result process_email builds when extraction raises e
ProcessEmailFailure(e) ==
  PyDict(<< <<Key.jobs, PyList(<< >>)>>, <<Key.relevant, PyBool(FALSE)>>,
            <<Key.reason, PyStr(e)>>, <<Key.error, PyStr(e)>> >>)

\* data, as computed from the response text
DataOf(text) ==
  LET r == json_loads(json_text(text))
  IN  IF r.ok THEN r.val ELSE ParseFailure(DecodeErrorText(r.msg, r.pos))

\* data for each of ResponseTexts
ResponseData == AsTuple([i \in 1..Len(ResponseTexts) |-> DataOf(ResponseTexts[i])])

\* for attempt in range(LoopAttempts)
LoopAttempts == 4
\* ... and attempt < RetryLimit
RetryLimit == 3

\* the most calls of process_email in a run
MaxMails == 2

\* the error codes a ClientError can carry ("" when the response has none)
ErrorCodes == {"ThrottlingException", "ValidationException", ""}

\* the variant of the retry condition that retries after every ClientError
RetryAfterAnyError(code, n) == n < RetryLimit

\* code == "ThrottlingException" and attempt < 3
RetryAfter(code, n) == code = "ThrottlingException" /\ n < RetryLimit

\* the value of a result variable before the call has returned
NoResult == [t |-> "unset", v |-> << >>]

ExtractIdle ==
  /\ xpc = "idle"
  /\ xmail = 0
  /\ attempt = 0
  /\ invocations = << >>
  /\ response = 0
  /\ extracted = NoResult
  /\ llm_result = NoResult

\* process_email(mail, idx) is entered and get_bedrock_client() succeeds
BeginExtract(idx) ==
  /\ xmail' = idx
  /\ xpc' = "loop"
  /\ attempt' = 0
  /\ invocations' = << >>
  /\ response' = 0
  /\ extracted' = NoResult
  /\ llm_result' = NoResult

\* process_email(mail, idx) is entered and get_bedrock_client() raises:
\* extract_job_status_claude raises and process_email builds the result
BeginExtractRaises(idx) ==
  /\ xmail' = idx
  /\ xpc' = "returned"
  /\ attempt' = 0
  /\ invocations' = << >>
  /\ response' = 0
  /\ extracted' = NoResult
  /\ llm_result' = ProcessEmailFailure(Message.unknown_service)

\* extract_job_status_claude returns data, and process_email hands it on
Returns(data) ==
  /\ xpc' = "returned"
  /\ extracted' = data
  /\ llm_result' = data

\* invoke_model answers with one of the given texts: parse it and return
InvokeAnswersFrom(texts) ==
  /\ xpc = "loop"
  /\ \E i \in texts :
       /\ response' = i
       /\ invocations' = Append(invocations, "response")
       /\ Returns(ResponseData[i])
  /\ UNCHANGED <<xmail, attempt>>
  /\ UNCHANGED <<statusVars, dbVars, mainVars, fetchVars>>

InvokeAnswers == InvokeAnswersFrom(1..Len(ResponseTexts))

\* invoke_model raises a ClientError: retry after throttling, else give up
InvokeClientError ==
  /\ xpc = "loop"
  /\ \E code \in ErrorCodes :
       /\ invocations' = Append(invocations, code)
       /\ IF RetryAfter(code, attempt) /\ attempt + 1 < LoopAttempts
            THEN attempt' = attempt + 1 /\ UNCHANGED <<xpc, extracted, llm_result>>
            ELSE Returns(LoopFailure) /\ UNCHANGED attempt
  /\ UNCHANGED <<xmail, response>>
  /\ UNCHANGED <<statusVars, dbVars, mainVars, fetchVars>>

\* invoke_model, or the reading of its response envelope, raises another
\* exception: give up
InvokeRaises ==
  /\ xpc = "loop"
  /\ invocations' = Append(invocations, "Exception")
  /\ Returns(LoopFailure)
  /\ UNCHANGED <<xmail, response, attempt>>
  /\ UNCHANGED <<statusVars, dbVars, mainVars, fetchVars>>

\* a caller runs process_email on one mail after another
CallProcessEmail ==
  /\ xpc \in {"idle", "returned"}
  /\ \E idx \in 1..MaxMails : BeginExtract(idx)
  /\ UNCHANGED <<statusVars, dbVars, mainVars, fetchVars>>

CallProcessEmailRaises ==
  /\ xpc \in {"idle", "returned"}
  /\ \E idx \in 1..MaxMails : BeginExtractRaises(idx)
  /\ UNCHANGED <<statusVars, dbVars, mainVars, fetchVars>>

(***************************************************************************)
(* The coordinator: load_blacklist, the gates, and main.                   *)
(***************************************************************************)
job_like_keywords ==
  << <<"j","o","b">>,
     <<"a","p","p","l","i","c","a","t","i","o","n">>,
     <<"a","p","p","l","i","e","d">>,
     <<"i","n","t","e","r","v","i","e","w">>,
     <<"o","f","f","e","r">>,
     <<"p","o","s","i","t","i","o","n">>,
     <<"r","o","l","e">>,
     <<"c","a","r","e","e","r">>,
     <<"c","a","n","d","i","d","a","t","e">>,
     <<"h","i","r","i","n","g">>,
     <<"r","e","c","r","u","i","t">>,
     <<"r","e","c","r","u","i","t","e","r">>,
     <<"o","p","e","n","i","n","g">> >>

\* any(word in text for word in words)
AnyWordIn(words, text) == \E i \in 1..Len(words) : Contains(text, words[i])

contains_blacklist_keywords(mail, keywords) ==
  AnyWordIn(keywords, Lower(mail.subject \o <<" ">> \o mail.from))

\* the variant of looks_job_related that reads the body only
looks_job_related_in_body(mail) ==
  AnyWordIn(job_like_keywords, Lower(mail.body))

looks_job_related(mail) ==
  AnyWordIn(job_like_keywords, Lower(mail.subject \o <<" ">> \o mail.body))

\* the messages a fetch can return
Mail(id, subject, sender, date, body) ==
  [id |-> id, subject |-> subject, from |-> sender, date |-> date, body |-> body]

MailPool ==
  << Mail(Str.m1, Str.subject_acme, Str.from_acme,
          Str.date_header, Str.body_acme),
     Mail(Str.m2, Str.subject_rental, Str.from_rental,
          Str.hdr_date, Str.body_rental),
     Mail(Str.id3, Str.subject_news, Str.from_news,
          << >>, Str.body_news),
     Mail(Str.id4, Str.subject_alert, Str.from_alert,
          Str.hdr_date, Str.body_alert) >>

\* to_iso_date on the Date headers of MailPool: a header that
\* parsedate_to_datetime reads without a zone maps to its isoformat(), one it
\* cannot read maps to ""
to_iso_date(date_str) ==
  DictGet(<< <<Str.date_header, Str.date_iso>> >>, date_str, << >>)

\* what blacklist.txt can hold: its lines, None when it does not exist
BlacklistFiles ==
  { PyNone, PyList(<< Str.line_jobspam >>),
    PyList(<< Str.line_rental, Str.line_blank, Str.line_jobspam >>) }

\* [line.strip().lower() for line in f if line.strip()]
load_blacklist(file) ==
  IF file.t = "null" THEN << >>
  ELSE LET kept == SelectSeq(file.v, LAMBDA line : Len(Strip(line)) > 0)
       IN  AsTuple([i \in 1..Len(kept) |-> Lower(Strip(kept[i]))])

\* the response texts the batches draw from: one and two job mentions, not
\* relevant, flat fields, no mention, prose, a number, a status that is a
\* number, a jobs value that is a string, flat fields beside an empty
\* list, beside a jobs value that is a string, and beside a job mention
MainResponses ==
  {i \in 1..Len(ResponseTexts) :
     ResponseTexts[i] \in {Text.one_job, Text.two_jobs, Text.not_relevant, Text.flat,
                           Text.no_jobs, Text.prose, Text.number, Text.status_number,
                           Text.jobs_string, Text.flat_empty_list,
                           Text.flat_jobs_string, Text.jobs_and_flat}}

\* the most messages one fetch returns
MaxFetched == 2
\* the most batches of a run
MaxBatches == 2

FetchLists == UNION {[1..n -> 1..Len(MailPool)] : n \in 0..MaxFetched}
\* what a fetch returns as next page token: none, or a token the provider
\* issues for that fetch
PageTokens(n) == {PyNone, PyStr(<<"t">> \o IntToStr(n))}

\* the inputs of the batches of a run that is followed over several
\* batches, with kills and restarts: no blacklist file, runs of the
\* listing m1, m2, m3, three response texts
RunInputs ==
  [ files |-> {PyNone},
    lists |-> {SubSeq(<<1, 2, 3>>, ab[1], ab[2]) :
                 ab \in {p \in (1..3) \X (0..3) : p[2] - p[1] < MaxFetched}},
    texts |-> {i \in 1..Len(ResponseTexts) :
                 ResponseTexts[i] \in {Text.one_job, Text.not_relevant, Text.number}} ]

\* f.read().strip() or None, None when the file does not exist
StoredValue(file) ==
  IF file.t = "str" /\ Len(Strip(file.v)) > 0 THEN PyStr(Strip(file.v)) ELSE PyNone

\* the variant of the filter loop that never breaks
StopIndexNever(ems, sentinel) == Len(ems) + 1

\* the position at which the filter loop breaks: the first message whose id
\* is last_id, or one past the end
StopIndex(ems, sentinel) ==
  IF \E i \in 1..Len(ems) : Truthy(sentinel) /\ MailPool[ems[i]].id = sentinel.v
    THEN CHOOSE i \in 1..Len(ems) :
           /\ MailPool[ems[i]].id = sentinel.v
           /\ \A k \in 1..(i-1) : MailPool[ems[k]].id # sentinel.v
    ELSE Len(ems) + 1

\* the variant of the loop body that applies the blacklist gate only
FilterVerdictBlacklistOnly(mail, blacklist) ==
  IF contains_blacklist_keywords(mail, blacklist) THEN "blacklist" ELSE "keep"

\* the loop body's verdict on one message
FilterVerdict(mail, blacklist) ==
  IF contains_blacklist_keywords(mail, blacklist) THEN "blacklist"
  ELSE IF ~looks_job_related(mail) THEN "prefilter"
  ELSE "keep"

RECURSIVE KeptUpTo(_, _, _)
\* emails_to_process after the loop has run over ems[1..n]
KeptUpTo(ems, blacklist, n) ==
  IF n = 0 THEN << >>
  ELSE IF FilterVerdict(MailPool[ems[n]], blacklist) = "keep"
    THEN Append(KeptUpTo(ems, blacklist, n - 1), [mail |-> ems[n], idx |-> n])
    ELSE KeptUpTo(ems, blacklist, n - 1)

\* the variant that counts the skips over the whole of ems
SkippedInAll(ems, blacklist, n, verdict) ==
  Cardinality({i \in 1..Len(ems) : FilterVerdict(MailPool[ems[i]], blacklist) = verdict})

\* how many of ems[1..n] the loop skipped with the given verdict
Skipped(ems, blacklist, n, verdict) ==
  Cardinality({i \in 1..n : FilterVerdict(MailPool[ems[i]], blacklist) = verdict})

\* d.get(key, default) on a dict
Get(d, key, default) == DictGet(d.v, key, default)

\* the variant that takes every result for relevant
RelevantAlways(r) == TRUE

\* not llm_result.get("relevant", True) is false
Relevant(r) == Truthy(Get(r, Key.relevant, PyBool(TRUE)))

\* a or b
Or(a, b) == IF Truthy(a) THEN a ELSE b

\* the variant of jobs without the wrapping of single flat fields
JobsOfListOnly(r) ==
  LET given == Get(r, Key.jobs, PyList(<< >>))
  IN  IF given.t = "arr" THEN given.v ELSE << >>

\* jobs, after the isinstance check and the wrapping of single flat fields
JobsOf(r) ==
  LET given == Get(r, Key.jobs, PyList(<< >>))
      jobs  == IF given.t = "arr" THEN given.v ELSE << >>
  IN  IF /\ Len(jobs) = 0
         /\ \E k \in {Key.company, Key.job_title, Key.status} : Truthy(Get(r, k, PyNone))
        THEN << PyDict(<< <<Key.company, Get(r, Key.company, PyStr(<< >>))>>,
                          <<Key.job_title, Get(r, Key.job_title, PyStr(<< >>))>>,
                          <<Key.status, Get(r, Key.status, PyStr(<< >>))>>,
                          <<Key.date, Get(r, Key.date, PyStr(<< >>))>> >>) >>
        ELSE jobs

\* one entry of `applications`
ApplicationOf(r, job) ==
  Mention(Get(job, Key.company, PyStr(<< >>)), Get(job, Key.job_title, PyStr(<< >>)),
          clean_status(Get(job, Key.status, PyStr(<< >>))),
          Get(job, Key.date, PyStr(<< >>)),
          Get(r, Key.reason, PyStr(<< >>)), Get(r, Key.error, PyStr(<< >>)))

\* the row appended to output_rows for a relevant result
RowOf(mail, idx, r) ==
  MkRow(mail.id, idx, mail.subject, mail.from, mail.date, to_iso_date(mail.date),
        AsTuple([j \in 1..Len(JobsOf(r)) |-> ApplicationOf(r, JobsOf(r)[j])]),
        Get(r, Key.reason, PyStr(<< >>)), Get(r, Key.error, PyStr(<< >>)))

\* a list or a dict cannot be a key of error_counts
Unhashable(v) == v.t \in {"arr", "obj"}

\* handling the result raises: .get on a value that is no dict, .get on a
\* job that is no dict, clean_status on a status that is no string, or an
\* unhashable key of error_counts
CollectRaises(r) ==
  \/ r.t # "obj"
  \/ /\ r.t = "obj"
     /\ IF Relevant(r)
          THEN \/ \E j \in 1..Len(JobsOf(r)) :
                    \/ JobsOf(r)[j].t # "obj"
                    \/ /\ JobsOf(r)[j].t = "obj"
                       /\ clean_status_raises(Get(JobsOf(r)[j], Key.status, PyStr(<< >>)))
               \/ Unhashable(Or(Get(r, Key.error, PyNone), PyStr(Str.ok)))
          ELSE Unhashable(Or(Get(r, Key.error, PyNone),
                             Or(Get(r, Key.reason, PyNone), PyStr(Str.ok))))

\* before main runs, `begun` batches being counted as run already; the
\* checkpoint file last_processed_id.txt is as an earlier run left it
MainStart(phase, id_files, begun) ==
  /\ mpc = phase
  /\ batchNo = begun
  /\ blacklist_keywords = << >>
  /\ last_id = PyNone
  /\ fetched = << >>
  /\ new_page_token = PyNone
  /\ emails_to_process = << >>
  /\ skipped_blacklist = 0
  /\ skipped_prefilter = 0
  /\ skipped_not_relevant = 0
  /\ nextTask = 0
  /\ completed = {}
  /\ submitted = {}
  /\ output_rows = << >>
  /\ last_processed_id_txt \in id_files
  /\ next_page_token_txt = PyNone
  /\ start_page_token = PyNone

\* main up to the submission of the candidates: read the blacklist and the
\* checkpoint, fetch, run the filter loop, submit
FetchAndFilterFrom(files, lists) ==
  /\ mpc = "start"
  /\ batchNo < MaxBatches
  /\ \E file \in files, ems \in lists, token \in PageTokens(batchNo + 1) :
       LET blacklist == load_blacklist(file)
           stop      == StopIndex(ems, StoredValue(last_processed_id_txt))
       IN  /\ blacklist_keywords' = blacklist
           /\ last_id' = StoredValue(last_processed_id_txt)
           /\ fetched' = ems
           /\ new_page_token' = token
           /\ emails_to_process' = KeptUpTo(ems, blacklist, stop - 1)
           /\ skipped_blacklist' = Skipped(ems, blacklist, stop - 1, "blacklist")
           /\ skipped_prefilter' = Skipped(ems, blacklist, stop - 1, "prefilter")
  /\ batchNo' = batchNo + 1
  /\ skipped_not_relevant' = 0
  /\ nextTask' = 1
  /\ completed' = {}
  /\ submitted' = {}
  /\ output_rows' = << >>
  /\ start_page_token' = StoredValue(next_page_token_txt)
  /\ mpc' = "extract"
  /\ UNCHANGED <<last_processed_id_txt, next_page_token_txt>>
  /\ UNCHANGED <<statusVars, dbVars, extractVars, fetchVars>>

FetchAndFilter ==
  mpc = "start" /\ FetchAndFilterFrom(BlacklistFiles, FetchLists)

RunFetchAndFilter ==
  mpc = "start" /\ FetchAndFilterFrom(RunInputs.files, RunInputs.lists)

\* get_job_emails raises what messages.list or messages.get raised: nothing
\* catches it and the process ends
FetchFails ==
  /\ mpc = "start"
  /\ batchNo < MaxBatches
  /\ batchNo' = batchNo + 1
  /\ mpc' = "crashed"
  /\ UNCHANGED <<blacklist_keywords, last_id, fetched, new_page_token,
                 emails_to_process, skipped_blacklist, skipped_prefilter,
                 skipped_not_relevant, nextTask, completed, submitted,
                 output_rows, last_processed_id_txt, next_page_token_txt,
                 start_page_token>>
  /\ UNCHANGED <<statusVars, dbVars, extractVars, fetchVars>>

\* the pool's one worker still has the batch's executor
WorkerAlive == mpc \in {"extract", "crashed"}

\* the worker takes the next submitted task and enters process_email
WorkerTake ==
  /\ WorkerAlive
  /\ xpc = "idle"
  /\ nextTask \in 1..Len(emails_to_process)
  /\ BeginExtract(emails_to_process[nextTask].idx)
  /\ submitted' = submitted \cup {emails_to_process[nextTask].idx}
  /\ UNCHANGED <<mpc, batchNo, blacklist_keywords, last_id, fetched,
                 new_page_token,
                 emails_to_process, skipped_blacklist, skipped_prefilter,
                 skipped_not_relevant, nextTask, completed, output_rows,
                 last_processed_id_txt, next_page_token_txt, start_page_token>>
  /\ UNCHANGED <<statusVars, dbVars, fetchVars>>

WorkerTakeRaises ==
  /\ WorkerAlive
  /\ xpc = "idle"
  /\ nextTask \in 1..Len(emails_to_process)
  /\ BeginExtractRaises(emails_to_process[nextTask].idx)
  /\ submitted' = submitted \cup {emails_to_process[nextTask].idx}
  /\ UNCHANGED <<mpc, batchNo, blacklist_keywords, last_id, fetched,
                 new_page_token,
                 emails_to_process, skipped_blacklist, skipped_prefilter,
                 skipped_not_relevant, nextTask, completed, output_rows,
                 last_processed_id_txt, next_page_token_txt, start_page_token>>
  /\ UNCHANGED <<statusVars, dbVars, fetchVars>>

\* steps of the extraction the worker is in
WorkerInvokeAnswers == WorkerAlive /\ InvokeAnswersFrom(MainResponses)

RunInvokeAnswers == WorkerAlive /\ InvokeAnswersFrom(RunInputs.texts)

WorkerInvokeClientError == WorkerAlive /\ InvokeClientError

WorkerInvokeRaises == WorkerAlive /\ InvokeRaises

\* process_email has returned: the task's future completes
WorkerDone ==
  /\ WorkerAlive
  /\ xpc = "returned"
  /\ completed' = completed \cup
       {[task |-> nextTask, idx |-> xmail, llm_result |-> llm_result]}
  /\ nextTask' = nextTask + 1
  /\ xpc' = "idle"
  /\ xmail' = 0
  /\ attempt' = 0
  /\ invocations' = << >>
  /\ response' = 0
  /\ extracted' = NoResult
  /\ llm_result' = NoResult
  /\ UNCHANGED <<mpc, batchNo, blacklist_keywords, last_id, fetched,
                 new_page_token,
                 emails_to_process, skipped_blacklist, skipped_prefilter,
                 skipped_not_relevant, submitted, output_rows,
                 last_processed_id_txt, next_page_token_txt, start_page_token>>
  /\ UNCHANGED <<statusVars, dbVars, fetchVars>>

\* as_completed hands the coordinator a finished future: one turn of the
\* collection loop
Collect ==
  /\ mpc = "extract"
  /\ \E f \in completed :
       /\ completed' = completed \ {f}
       /\ IF CollectRaises(f.llm_result)
            THEN /\ mpc' = "crashed"
                 /\ UNCHANGED <<skipped_not_relevant, output_rows>>
          ELSE IF ~Relevant(f.llm_result)
            THEN /\ skipped_not_relevant' = skipped_not_relevant + 1
                 /\ UNCHANGED <<mpc, output_rows>>
          ELSE /\ output_rows' =
                    Append(output_rows,
                           RowOf(MailPool[fetched[f.idx]], f.idx, f.llm_result))
               /\ UNCHANGED <<mpc, skipped_not_relevant>>
  /\ UNCHANGED <<batchNo, blacklist_keywords, last_id, fetched,
                 new_page_token,
                 emails_to_process, skipped_blacklist, skipped_prefilter,
                 nextTask, submitted, last_processed_id_txt,
                 next_page_token_txt, start_page_token>>
  /\ UNCHANGED <<statusVars, dbVars, extractVars, fetchVars>>

\* the variant that waits for the last task to be taken only
AllTaken == nextTask = Len(emails_to_process) + 1

\* every submitted task has run and every future has been collected
AllCollected ==
  /\ nextTask = Len(emails_to_process) + 1
  /\ completed = {}

\* if output_rows: save_rows(conn, output_rows), which commits
Persist ==
  /\ mpc = "extract"
  /\ AllCollected
  /\ IF Len(output_rows) = 0
       THEN mpc' = "write_token" /\ UNCHANGED dbVars
       ELSE /\ mpc' = "write_id"
            /\ \E stmts \in {Statements(output_rows)} : \E now \in clock..MaxClock :
                 SaveRowsCall(output_rows, stmts, Len(stmts), now)
  /\ UNCHANGED <<batchNo, blacklist_keywords, last_id, fetched,
                 new_page_token,
                 emails_to_process, skipped_blacklist, skipped_prefilter,
                 skipped_not_relevant, nextTask, completed, submitted,
                 output_rows, last_processed_id_txt, next_page_token_txt, start_page_token>>
  /\ UNCHANGED <<statusVars, extractVars, fetchVars>>

\* the variant in which main catches what save_rows raises and goes on to
\* write the page token
AfterSaveRaisesCaught == "write_token"

\* where main is after save_rows has raised: nothing catches it
AfterSaveRaises == "crashed"

\* save_rows raises part-way: the transaction is rolled back and main ends
PersistFails ==
  /\ mpc = "extract"
  /\ AllCollected
  /\ Len(output_rows) > 0
  /\ mpc' = AfterSaveRaises
  /\ \E stmts \in {Statements(output_rows)} : \E now \in clock..MaxClock :
       \E ran \in 0..(Len(stmts) - 1) : SaveRowsCall(output_rows, stmts, ran, now)
  /\ UNCHANGED <<batchNo, blacklist_keywords, last_id, fetched,
                 new_page_token,
                 emails_to_process, skipped_blacklist, skipped_prefilter,
                 skipped_not_relevant, nextTask, completed, submitted,
                 output_rows, last_processed_id_txt, next_page_token_txt, start_page_token>>
  /\ UNCHANGED <<statusVars, extractVars, fetchVars>>

\* last_processed_id.txt receives the id of the last candidate
WriteLastId ==
  /\ mpc = "write_id"
  /\ mpc' = "write_token"
  /\ last_processed_id_txt' =
       IF Len(emails_to_process) > 0
            /\ Len(MailPool[emails_to_process[Len(emails_to_process)].mail].id) > 0
         THEN PyStr(MailPool[emails_to_process[Len(emails_to_process)].mail].id)
         ELSE last_processed_id_txt
  /\ UNCHANGED <<batchNo, blacklist_keywords, last_id, fetched,
                 new_page_token,
                 emails_to_process, skipped_blacklist, skipped_prefilter,
                 skipped_not_relevant, nextTask, completed, submitted,
                 output_rows, next_page_token_txt, start_page_token>>
  /\ UNCHANGED <<statusVars, dbVars, extractVars, fetchVars>>

\* next_page_token.txt receives new_page_token or ""
WriteToken ==
  /\ mpc = "write_token"
  /\ mpc' = "sleep"
  /\ next_page_token_txt' = Or(new_page_token, PyStr(<< >>))
  /\ UNCHANGED <<batchNo, blacklist_keywords, last_id, fetched,
                 new_page_token,
                 emails_to_process, skipped_blacklist, skipped_prefilter,
                 skipped_not_relevant, nextTask, completed, submitted,
                 output_rows, last_processed_id_txt, start_page_token>>
  /\ UNCHANGED <<statusVars, dbVars, extractVars, fetchVars>>

\* the locals of main, the executor's futures and the worker are gone once
\* main has returned or the process has ended
ForgetLocals ==
  /\ xpc' = "idle"
  /\ xmail' = 0
  /\ attempt' = 0
  /\ invocations' = << >>
  /\ response' = 0
  /\ extracted' = NoResult
  /\ llm_result' = NoResult
  /\ blacklist_keywords' = << >>
  /\ last_id' = PyNone
  /\ fetched' = << >>
  /\ new_page_token' = PyNone
  /\ emails_to_process' = << >>
  /\ skipped_blacklist' = 0
  /\ skipped_prefilter' = 0
  /\ skipped_not_relevant' = 0
  /\ nextTask' = 0
  /\ completed' = {}
  /\ submitted' = {}
  /\ output_rows' = << >>
  /\ start_page_token' = PyNone

\* the variant in which main returns without writing the page token
SleepSkippingToken ==
  /\ mpc \in {"write_token", "sleep"}
  /\ mpc' = "start"
  /\ ForgetLocals
  /\ UNCHANGED <<batchNo, last_processed_id_txt, next_page_token_txt>>
  /\ UNCHANGED <<statusVars, dbVars, fetchVars>>

\* main returns, time.sleep(300), then the next main()
Sleep ==
  /\ mpc = "sleep"
  /\ mpc' = "start"
  /\ ForgetLocals
  /\ UNCHANGED <<batchNo, last_processed_id_txt, next_page_token_txt>>
  /\ UNCHANGED <<statusVars, dbVars, fetchVars>>

\* the process is killed between two steps of a batch, or while it writes
\* a checkpoint file that open(..., "w") has already truncated
Kill ==
  /\ mpc \in {"start", "extract", "write_id", "write_token", "sleep"}
  /\ mpc' = "killed"
  /\ \E torn \in BOOLEAN :
       /\ last_processed_id_txt' =
            IF torn /\ mpc = "write_id" /\ Len(emails_to_process) > 0
              THEN PyStr(<< >>) ELSE last_processed_id_txt
       /\ next_page_token_txt' =
            IF torn /\ mpc = "write_token" THEN PyStr(<< >>) ELSE next_page_token_txt
  /\ ForgetLocals
  /\ UNCHANGED batchNo
  /\ UNCHANGED <<statusVars, dbVars, fetchVars>>

\* the process is killed inside save_rows: the open transaction is never
\* committed, and sqlite rolls it back
KillDuringSave ==
  /\ mpc = "extract"
  /\ AllCollected
  /\ Len(output_rows) > 0
  /\ mpc' = "killed"
  /\ \E stmts \in {Statements(output_rows)} : \E now \in clock..MaxClock :
       \E ran \in 0..(Len(stmts) - 1) : SaveRowsCall(output_rows, stmts, ran, now)
  /\ ForgetLocals
  /\ UNCHANGED <<batchNo, last_processed_id_txt, next_page_token_txt>>
  /\ UNCHANGED <<statusVars, fetchVars>>

\* the process is started again after it was killed, or after it ended on
\* an exception (an executor that is left on an exception first lets its
\* worker finish the submitted tasks)
Restart ==
  /\ \/ mpc = "killed"
     \/ mpc = "crashed" /\ xpc = "idle" /\ nextTask \notin 1..Len(emails_to_process)
  /\ batchNo < MaxBatches
  /\ mpc' = "start"
  /\ ForgetLocals
  /\ UNCHANGED <<batchNo, last_processed_id_txt, next_page_token_txt>>
  /\ UNCHANGED <<statusVars, dbVars, fetchVars>>

(***************************************************************************)
(* get_job_emails: paging through messages.list, and messages.get for      *)
(* every listed message.  The provider's listing for the query is a        *)
(* sequence of messages; a page token names the number of messages listed  *)
(* before the page it opens.                                               *)
(***************************************************************************)
\* the longest listing of the provider
MaxListing == 3
\* the largest max_total
MaxTotal == 3
\* the most messages.list calls of one get_job_emails call
MaxListCalls == 4
\* maxResults is min(500, ...)
PageCap == 500

\* the provider's token for the page that starts after k listed messages
TokenOf(k) == PyStr(IntToStr(k))

\* the number of messages listed before the page a token opens
OffsetOf(token) ==
  CHOOSE k \in 0..(MaxListing + 1) : IntToStr(k) = token.v

\* the shapes of msg_detail['payload'] for a message with the given text.
\* A value of ['body']['data'] is the base64 encoding of a text (b64), a
\* string that does not decode (bad), or absent; 'parts' is a list or
\* absent.  The shapes: a single-part message, one whose body has no data,
\* one whose data does not decode, a multipart message with a text/plain
\* part after an html part, one whose first text/plain part has no data,
\* and one with no text/plain part
Payloads(text) ==
  LET Encoded(x) == [t |-> "b64", v |-> x]
      Undecodable == [t |-> "bad", v |-> << >>]
      NoData == [t |-> "absent", v |-> << >>]
      NoParts == [t |-> "absent", v |-> << >>]
  IN
  { [parts |-> NoParts, data |-> Encoded(text)],
    [parts |-> NoParts, data |-> NoData],
    [parts |-> NoParts, data |-> Undecodable],
    [parts |-> PyList(<< [mimeType |-> "text/html", data |-> Encoded(<<"<","p",">">>)],
                         [mimeType |-> "text/plain", data |-> Encoded(text)] >>),
     data |-> NoData],
    [parts |-> PyList(<< [mimeType |-> "text/plain", data |-> NoData],
                         [mimeType |-> "text/plain", data |-> Encoded(text)] >>),
     data |-> NoData],
    [parts |-> PyList(<< [mimeType |-> "text/html", data |-> Encoded(<<"<","p",">">>)] >>),
     data |-> Encoded(text)] }

\* msg_detail['payload']['headers']: a header whose value is empty is left
\* out
HeadersOf(mail) ==
  SelectSeq(<< <<"Subject", mail.subject>>, <<"From", mail.from>>,
               <<"Date", mail.date>> >>,
            LAMBDA h : Len(h[2]) > 0)

\* next((h['value'] for h in headers if h['name'] == name), '')
Header(headers, name) == DictGet(headers, name, << >>)

\* the body computed by the try block; decoding raises on data that is
\* absent or is no base64 of utf-8 text
BodyOf(payload) ==
  IF payload.parts.t = "arr"
    THEN LET parts == payload.parts.v
             plain == {i \in 1..Len(parts) :
                         parts[i].mimeType = "text/plain" /\ parts[i].data.t # "absent"}
         IN  IF plain = {} THEN << >>
             ELSE LET first == CHOOSE i \in plain : \A k \in plain : i <= k
                  IN  IF parts[first].data.t # "b64" THEN Message.unable
                      ELSE parts[first].data.v
    ELSE IF payload.data.t # "b64" THEN Message.unable ELSE payload.data.v

\* the dict appended to emails for a message and its msg_detail
EmailDict(msg, headers, payload) ==
  Mail(MailPool[msg].id, Header(headers, "Subject"), Header(headers, "From"),
       Header(headers, "Date"), BodyOf(payload))

\* what messages.list returns for a page token and maxResults: up to
\* `most` of the messages that follow, and a nextPageToken when more follow
ListResponses(box, token, most) ==
  LET from == IF Truthy(token) THEN OffsetOf(token) ELSE 0
  IN  { [messages |-> SubSeq(box, from + 1, from + n),
         nextPageToken |-> IF from + n < Len(box) THEN TokenOf(from + n) ELSE PyNone] :
        n \in 0..Min(most, Len(box) - from) }

\* before a call of get_job_emails, the provider holding one of the given
\* listings
FetchStart(boxes) ==
  /\ gpc = "idle"
  /\ mailbox \in boxes
  /\ max_total = 0
  /\ start_token = PyNone
  /\ next_page_token = PyNone
  /\ n_fetched = 0
  /\ job_emails = << >>
  /\ results = [messages |-> << >>, nextPageToken |-> PyNone]
  /\ msg_pos = 0
  /\ list_calls = << >>
  /\ msg_detail = [parts |-> [t |-> "unset", v |-> << >>], data |-> [t |-> "unset", v |-> << >>]]

\* get_job_emails(service, max_total=..., start_page_token=...) is entered;
\* start_page_token is None, an empty string, or a token the provider issued
\* for this listing
CallGetJobEmails ==
  /\ gpc = "idle"
  /\ \E total \in 0..MaxTotal,
        token \in {PyNone, PyStr(<< >>)} \cup {TokenOf(k) : k \in 1..(Len(mailbox) - 1)} :
       /\ max_total' = total
       /\ start_token' = token
       /\ next_page_token' = token
  /\ n_fetched' = 0
  /\ job_emails' = << >>
  /\ gpc' = "while"
  /\ msg_detail' = [parts |-> [t |-> "unset", v |-> << >>], data |-> [t |-> "unset", v |-> << >>]]
  /\ UNCHANGED <<mailbox, results, msg_pos, list_calls>>
  /\ UNCHANGED <<statusVars, dbVars, extractVars, mainVars>>

\* the variant of the page size: maxResults is not lowered by what has
\* been fetched
maxResultsOfTotal(total, had) == Min(PageCap, total)

\* min(500, max_total - fetched)
maxResults(total, had) == Min(PageCap, total - had)

\* while fetched < max_total: one messages.list call.  The provider may
\* return one message more than maxResults asks for.
ListPage ==
  /\ gpc = "while"
  /\ n_fetched < max_total
  /\ Len(list_calls) < MaxListCalls
  /\ \E over \in 0..1 :
       \E r \in ListResponses(mailbox, next_page_token,
                              maxResults(max_total, n_fetched) + over) :
         /\ results' = r
         /\ list_calls' = Append(list_calls,
                [pageToken |-> IF Truthy(next_page_token) THEN next_page_token
                                                           ELSE PyNone,
                 maxResults |-> maxResults(max_total, n_fetched),
                 returned |-> Len(r.messages)])
         /\ gpc' = IF Len(r.messages) = 0 THEN "page_end" ELSE "for"
  /\ msg_pos' = 1
  /\ UNCHANGED <<mailbox, max_total, start_token, next_page_token, n_fetched,
                 job_emails>>
  /\ UNCHANGED msg_detail
  /\ UNCHANGED <<statusVars, dbVars, extractVars, mainVars>>

\* messages.list raises: get_job_emails raises
ListPageRaises ==
  /\ gpc = "while"
  /\ n_fetched < max_total
  /\ gpc' = "list_raised"
  /\ UNCHANGED <<mailbox, max_total, start_token, next_page_token, n_fetched,
                 job_emails, results, msg_pos, list_calls>>
  /\ UNCHANGED msg_detail
  /\ UNCHANGED <<statusVars, dbVars, extractVars, mainVars>>

\* one turn of `for msg in messages`: messages.get answers
GetDetail ==
  /\ gpc = "for"
  /\ \E payload \in Payloads(MailPool[results.messages[msg_pos]].body) :
       /\ msg_detail' = payload
       /\ job_emails' =
            Append(job_emails,
                   EmailDict(results.messages[msg_pos],
                             HeadersOf(MailPool[results.messages[msg_pos]]), payload))
  /\ n_fetched' = n_fetched + 1
  /\ msg_pos' = msg_pos + 1
  /\ gpc' = IF n_fetched + 1 >= max_total \/ msg_pos = Len(results.messages)
              THEN "page_end" ELSE "for"
  /\ UNCHANGED <<mailbox, max_total, start_token, next_page_token, results,
                 list_calls>>
  /\ UNCHANGED <<statusVars, dbVars, extractVars, mainVars>>

\* messages.get raises for the message the loop is at: nothing catches it
GetDetailRaises ==
  /\ gpc = "for"
  /\ gpc' = "get_raised"
  /\ UNCHANGED <<mailbox, max_total, start_token, next_page_token, n_fetched,
                 job_emails, results, msg_pos, list_calls>>
  /\ UNCHANGED msg_detail
  /\ UNCHANGED <<statusVars, dbVars, extractVars, mainVars>>

\* next_page_token = results.get("nextPageToken"); if not ...: break
EndPage ==
  /\ gpc = "page_end"
  /\ next_page_token' = results.nextPageToken
  /\ gpc' = IF Truthy(results.nextPageToken) THEN "while" ELSE "returned"
  /\ UNCHANGED <<mailbox, max_total, start_token, n_fetched, job_emails,
                 results, msg_pos, list_calls>>
  /\ UNCHANGED msg_detail
  /\ UNCHANGED <<statusVars, dbVars, extractVars, mainVars>>

\* the while condition is false: return emails, next_page_token
Return ==
  /\ gpc = "while"
  /\ n_fetched >= max_total
  /\ gpc' = "returned"
  /\ UNCHANGED <<mailbox, max_total, start_token, next_page_token, n_fetched,
                 job_emails, results, msg_pos, list_calls>>
  /\ UNCHANGED msg_detail
  /\ UNCHANGED <<statusVars, dbVars, extractVars, mainVars>>

(***************************************************************************)
(* Specifications                                                          *)
(***************************************************************************)
\* clean_status on every raw status
InitStatus ==
  /\ StatusStart(RawStatuses)
  /\ DbInit
  /\ ExtractIdle
  /\ MainStart("idle", {PyNone}, 0)
  /\ FetchStart({<< >>})

NextStatus ==
  \/ Normalize
  \/ Renormalize

SpecStatus == InitStatus /\ [][NextStatus]_vars

\* any sequence of save_rows calls on an initially empty database
InitSave ==
  /\ DbInit
  /\ StatusStart({PyNone})
  /\ ExtractIdle
  /\ MainStart("idle", {PyNone}, 0)
  /\ FetchStart({<< >>})

NextSave ==
  \/ SaveRows
  \/ SaveRowsFails

SpecSave == InitSave /\ [][NextSave]_vars

\* any sequence of process_email calls, under every behaviour of the model
InitExtract ==
  /\ ExtractIdle
  /\ StatusStart({PyNone})
  /\ DbInit
  /\ MainStart("idle", {PyNone}, 0)
  /\ FetchStart({<< >>})

NextExtract ==
  \/ CallProcessEmail
  \/ CallProcessEmailRaises
  \/ InvokeAnswers
  \/ InvokeClientError
  \/ InvokeRaises

SpecExtract == InitExtract /\ [][NextExtract]_vars

\* a call of get_job_emails, under every behaviour of the provider
\* the listings are the first n messages of MailPool, newest first
InitFetch ==
  /\ FetchStart({AsTuple([i \in 1..n |-> i]) : n \in 0..MaxListing})
  /\ StatusStart({PyNone})
  /\ DbInit
  /\ ExtractIdle
  /\ MainStart("idle", {PyNone}, 0)

NextFetch ==
  \/ CallGetJobEmails
  \/ ListPage
  \/ ListPageRaises
  \/ GetDetail
  \/ GetDetailRaises
  \/ EndPage
  \/ Return

SpecFetch == InitFetch /\ [][NextFetch]_vars

\* the process: batch after batch of main
\* the last batch before the bound, under every input: last_processed_id.txt
\* is absent, blank, or holds an id
Init ==
  /\ MainStart("start", {PyNone, PyStr(<<"\n">>), PyStr(Str.m2)}, MaxBatches - 1)
  /\ DbInit
  /\ ExtractIdle
  /\ StatusStart({PyNone})
  /\ FetchStart({<< >>})

Next ==
  \/ FetchAndFilter
  \/ FetchFails
  \/ WorkerTake
  \/ WorkerTakeRaises
  \/ WorkerInvokeAnswers
  \/ WorkerInvokeClientError
  \/ WorkerInvokeRaises
  \/ WorkerDone
  \/ Collect
  \/ Persist
  \/ PersistFails
  \/ WriteLastId
  \/ WriteToken
  \/ Sleep

Spec == Init /\ [][Next]_vars

\* a run of the process over several batches, killed and restarted at any
\* point: last_processed_id.txt is absent, empty, or holds an id
InitRun ==
  /\ MainStart("start", {PyNone, PyStr(<< >>), PyStr(Str.m2)}, 0)
  /\ DbInit
  /\ ExtractIdle
  /\ StatusStart({PyNone})
  /\ FetchStart({<< >>})

NextRun ==
  \/ RunFetchAndFilter
  \/ FetchFails
  \/ WorkerTake
  \/ WorkerTakeRaises
  \/ RunInvokeAnswers
  \/ WorkerInvokeClientError
  \/ WorkerInvokeRaises
  \/ WorkerDone
  \/ Collect
  \/ Persist
  \/ PersistFails
  \/ WriteLastId
  \/ WriteToken
  \/ Sleep
  \/ Kill
  \/ KillDuringSave
  \/ Restart

SpecRun == InitRun /\ [][NextRun]_vars

(***************************************************************************)
(* Properties                                                              *)
(***************************************************************************)
\* C1: every raw status string, the empty string and None included, is
\* normalised to one of the five canonical values, and normalising the
\* result again gives the same value.
C1_CanonicalAndIdempotent ==
  /\ normalized # NotRun => normalized \in CANONICAL
  /\ renormalized # NotRun => renormalized = normalized

\* a padded, upper-cased synonym has been normalised to a recognised status
\* and that status normalised again
C1_Witness ==
  /\ renormalized # NotRun
  /\ rawIn.t = "str"
  /\ rawIn.v # Lower(rawIn.v)
  /\ rawIn.v # Strip(rawIn.v)
  /\ normalized = s_interview

(***************************************************************************)
(* save_rows                                                               *)
(***************************************************************************)
\* an Application row without its surrogate id and its creation time
AppContent(a) ==
  [email_id |-> a.email_id, company |-> a.company, job_title |-> a.job_title,
   status |-> a.status, parsed_date |-> a.parsed_date, reason |-> a.reason,
   error |-> a.error]

\* how many rows of `apps` carry each content
ContentCounts(apps) ==
  [c \in {AppContent(a) : a \in apps} |->
     Cardinality({a \in apps : AppContent(a) = c})]

\* the rows of `apps` owned by the email `id`
AppsFor(apps, id) == {a \in apps : a.email_id = id}

\* the positions of a batch that carry the email `id`
Positions(rows, id) == {i \in 1..Len(rows) : rows[i].id = id}

\* the job mentions of the latest extraction a batch holds for `id`
LatestMentions(rows, id) ==
  rows[CHOOSE i \in Positions(rows, id) : \A j \in Positions(rows, id) : j <= i].applications

\* C2 as stated: a second save_rows with the identical batch leaves the Email
\* rows and the Application rows exactly as the first call left them.
C2_RowsUnchanged ==
  [][(lastResult = "committed" /\ lastResult' = "committed" /\ lastRows' = lastRows)
       => (emails' = emails /\ applications' = applications)]_vars

\* C2, amended: a second save_rows with the identical batch leaves the Email
\* rows unchanged and the Application rows the same up to their surrogate
\* ids and creation times, which the second call assigns anew.
C2_RowsUnchangedUpToIds ==
  [][(lastResult = "committed" /\ lastResult' = "committed" /\ lastRows' = lastRows)
       => (emails' = emails
           /\ ContentCounts(applications') = ContentCounts(applications))]_vars

\* a batch of two rows has been saved twice in a row, at different times, on
\* top of rows stored before
C2_Witness ==
  /\ repeated
  /\ Len(lastRows) = 2
  /\ \E a \in applications : a.created_at # 0
  /\ \E e \in emails : e.created_at = 0 /\ e.email_num # lastRows[1].email_num

ExpectedContents(rows, id) ==
  LET latest == LatestMentions(rows, id)
  IN  IF Len(latest) > 0
        THEN {[email_id |-> id, company |-> _clean(latest[j].company),
               job_title |-> _clean(latest[j].job_title),
               status |-> _clean(latest[j].status),
               parsed_date |-> _clean(latest[j].parsed_date),
               reason |-> _clean(latest[j].reason),
               error |-> _clean(latest[j].error)] : j \in 1..Len(latest)}
        ELSE {[email_id |-> id, company |-> _clean(rows[i].company),
               job_title |-> _clean(rows[i].job_title),
               status |-> _clean(rows[i].status),
               parsed_date |-> _clean(rows[i].parsed_date),
               reason |-> _clean(rows[i].reason),
               error |-> _clean(rows[i].error)] : i \in Positions(rows, id)}

\* C4: after save_rows no Application row that an earlier call wrote for an
\* email id of the batch remains; the rows stored for that id were all
\* inserted by this call and are derived from the current batch.
C4_NoStaleRows ==
  [][(lastResult' = "committed" /\ seq' > seq) =>
       \A a \in applications' :
         Positions(lastRows', a.email_id) # {} =>
           /\ a \notin applications
           /\ a.id > seq
           /\ AppContent(a) \in ExpectedContents(lastRows', a.email_id)]_vars

\* one mention was stored for an email, then a batch with two mentions for
\* it was saved: exactly the two new rows are stored
C4_Witness ==
  /\ lastResult = "committed"
  /\ Len(lastRows) = 1
  /\ Len(lastRows[1].applications) = 2
  /\ seq = 3
  /\ {a.id : a \in applications} = {2, 3}
  /\ \A e \in emails : e.id = lastRows[1].id

\* C5: a save_rows call in which a statement fails leaves the Email rows,
\* the Application rows and the id sequence exactly as they were before
\* the call, however many statements had run; a call that returns has
\* written every row of its batch.
C5_AllOrNothing ==
  [][/\ lastResult' = "rolledback" =>
          (emails' = emails /\ applications' = applications /\ seq' = seq)
     /\ (lastResult' = "committed" /\ seq' > seq) =>
          \A i \in 1..Len(lastRows') :
            /\ \E e \in emails' : e.id = lastRows'[i].id
            /\ \E a \in applications' : a.email_id = lastRows'[i].id /\ a.id > seq]_vars

\* a call failed after an upsert, a delete and an insert had run, on a
\* database that held rows
C5_Witness ==
  /\ lastResult = "rolledback"
  /\ ranStatements >= 3
  /\ emails # {}
  /\ applications # {}

\* d.get(key) on a result that is a dict; [t |-> "absent"] when key is missing
ValueAt(d, key) == DictGet(d.v, key, [t |-> "absent", v |-> << >>])

\* whether some stretch of the text is a JSON object
ContainsJsonObject(text) ==
  \E i \in 1..Len(text) : \E j \in i..Len(text) :
    /\ text[i] = "{"
    /\ text[j] = "}"
    /\ json_loads(SubSeq(text, i, j)).ok

\* relevant=false, error="Parsing failed", jobs=[]
IsParsingFailed(r) ==
  /\ r.t = "obj"
  /\ ValueAt(r, Key.relevant) = PyBool(FALSE)
  /\ ValueAt(r, Key.error) = PyStr(Message.parsing_failed)
  /\ ValueAt(r, Key.jobs) = PyList(<< >>)

\* C8: when the response text contains no parseable JSON object,
\* extract_job_status_claude returns relevant=false, error="Parsing failed"
\* and jobs=[]
C8_ParsingFailedResult ==
  (xpc = "returned" /\ response # 0
     /\ ~ContainsJsonObject(ResponseTexts[response]))
    => IsParsingFailed(extracted)

\* a mapping with a boolean relevant, a list jobs, and strings reason and error
WellFormed(r) ==
  /\ r.t = "obj"
  /\ ValueAt(r, Key.relevant).t = "bool"
  /\ ValueAt(r, Key.jobs).t = "arr"
  /\ ValueAt(r, Key.reason).t = "str"
  /\ ValueAt(r, Key.error).t = "str"

\* every attempt of the loop ended with a ThrottlingException
RetriesExhausted ==
  /\ Len(invocations) = LoopAttempts
  /\ \A i \in 1..Len(invocations) : invocations[i] = "ThrottlingException"

\* C9: whatever the model call does, process_email returns a well-formed
\* result, and after exhausted retries the failure result relevant=false,
\* reason "Parsing failed", jobs=[]
C9_AlwaysWellFormed ==
  xpc = "returned" =>
    /\ WellFormed(llm_result)
    /\ RetriesExhausted =>
         /\ ValueAt(llm_result, Key.relevant) = PyBool(FALSE)
         /\ ValueAt(llm_result, Key.reason) = PyStr(Message.parsing_failed)
         /\ ValueAt(llm_result, Key.jobs) = PyList(<< >>)

\* C10: one call invokes the model at most 4 times, and every invocation but
\* the last one ended with a ThrottlingException
C10_RetryOnlyAfterThrottling ==
  /\ Len(invocations) <= 4
  /\ \A i \in 1..(Len(invocations) - 1) : invocations[i] = "ThrottlingException"
  /\ (xpc = "loop" /\ Len(invocations) > 0)
       => invocations[Len(invocations)] = "ThrottlingException"

\* the fourth invocation is throttled as well, and the call returns
C10_Witness ==
  /\ xpc = "returned"
  /\ Len(invocations) = 4
  /\ invocations[4] = "ThrottlingException"

\* the message at position i of the fetched list
FetchedMail(i) == MailPool[fetched[i]]

\* C6: a fetched message that fails the blacklist gate or the job-likelihood
\* gate is never submitted: extract_job_status_claude is called only for
\* messages that pass both gates
C6_OnlyGatePassersExtracted ==
  \A i \in submitted :
    /\ ~contains_blacklist_keywords(FetchedMail(i), blacklist_keywords)
    /\ looks_job_related(FetchedMail(i))

\* a batch in which one message was extracted, one was stopped by the
\* blacklist gate and one by the job-likelihood gate
C6_Witness ==
  /\ submitted # {}
  /\ \E i \in 1..Len(fetched) :
       contains_blacklist_keywords(FetchedMail(i), blacklist_keywords)
  /\ nextTask = Len(emails_to_process) + 1
  /\ skipped_blacklist + skipped_prefilter > 0

\* the message of the scenario: the rental subject, no job keyword in the body
IsRentalPromotion(mail) ==
  /\ mail.subject = Str.subject_rental
  /\ ~AnyWordIn(job_like_keywords, Lower(mail.body))

\* C7: a message with subject "50% off your next rental application!" and
\* no job keyword in its body fails the job-likelihood prefilter and is
\* never handed to extract_job_status_claude
C7_RentalExcludedByPrefilter ==
  \A i \in 1..Len(fetched) :
    IsRentalPromotion(FetchedMail(i)) =>
      /\ ~looks_job_related(FetchedMail(i))
      /\ i \notin submitted

\* C7, as the code has it: that message passes the job-likelihood prefilter,
\* its subject holding the keyword "application"; unless the blacklist gate
\* stops it or it lies at or after the early-stop sentinel, it is queued and,
\* once the worker has run every task, extract_job_status_claude has been
\* called for it
C7_RentalPassesPrefilter ==
  \A i \in 1..Len(fetched) :
    IsRentalPromotion(FetchedMail(i)) =>
      /\ Contains(Lower(FetchedMail(i).subject), job_like_keywords[2])
      /\ (/\ i < StopIndex(fetched, last_id)
          /\ ~contains_blacklist_keywords(FetchedMail(i), blacklist_keywords))
           => /\ \E k \in 1..Len(emails_to_process) :
                   emails_to_process[k] = [mail |-> fetched[i], idx |-> i]
              /\ nextTask = Len(emails_to_process) + 1 => i \in submitted

\* extract_job_status_claude has been called for the rental promotion
C7_Witness ==
  \E i \in submitted : IsRentalPromotion(FetchedMail(i))

(***************************************************************************)
(* Claims about get_job_emails                                             *)
(***************************************************************************)
\* the number of messages listed before the page start_page_token opens
StartOffset == IF Truthy(start_token) THEN OffsetOf(start_token) ELSE 0

\* the provider never returned more than maxResults messages in a page
WithinMaxResults ==
  \A i \in 1..Len(list_calls) : list_calls[i].returned <= list_calls[i].maxResults

RECURSIVE ReturnedBefore(_)
\* the number of messages the pages before the i-th messages.list call held
ReturnedBefore(i) ==
  IF i <= 1 THEN 0 ELSE ReturnedBefore(i - 1) + list_calls[i - 1].returned

\* C11: get_job_emails returns at most max_total messages, in listing order
\* from the page start_page_token opens; it makes no messages.list call and
\* no messages.get call once max_total messages are retrieved, and no
\* messages.list call after a page without nextPageToken; and when no page
\* held more than maxResults messages, the messages returned are exactly
\* those listed before the returned next_page_token (before the end of the
\* listing when the provider's last page had no nextPageToken).
C11_PagingContract ==
  /\ n_fetched = Len(job_emails)
  /\ Len(job_emails) <= max_total
  /\ \A i \in 1..Len(job_emails) :
       job_emails[i].id = MailPool[mailbox[StartOffset + i]].id
  /\ gpc = "for" => n_fetched < max_total
  /\ \A i \in 1..Len(list_calls) :
       /\ ReturnedBefore(i) < max_total
       /\ list_calls[i].maxResults = max_total - ReturnedBefore(i)
       /\ i > 1 => Truthy(list_calls[i].pageToken)
       /\ Truthy(list_calls[i].pageToken) =>
            OffsetOf(list_calls[i].pageToken) = StartOffset + ReturnedBefore(i)
       /\ ~Truthy(list_calls[i].pageToken) => i = 1 /\ StartOffset = 0
  /\ (gpc = "returned" /\ WithinMaxResults) =>
       IF Truthy(next_page_token)
         THEN OffsetOf(next_page_token) = StartOffset + Len(job_emails)
         ELSE Len(list_calls) > 0 => StartOffset + Len(job_emails) = Len(mailbox)

\* a call that took two pages, reached max_total and returned a token
C11_Witness ==
  /\ gpc = "returned"
  /\ Len(list_calls) = 2
  /\ list_calls[1].returned = 1
  /\ Len(job_emails) = 2
  /\ max_total = 2
  /\ Truthy(next_page_token)
  /\ WithinMaxResults

\* C12: the failure of messages.get for one listed message does not abort
\* get_job_emails: the call never ends by raising what messages.get raised.
C12_DetailFailureTolerated == gpc # "get_raised"

\* C24: the body of a fetched message is the decoded data of the first
\* text/plain part of its payload when the payload has such a part, and the
\* decoded data of the payload's top-level body otherwise, a payload with
\* parts of other types only included (whenever that data decodes).
C24_PlainPartOrTopLevel ==
  (Len(job_emails) > 0 /\ msg_detail.parts.t # "unset") =>
    LET body  == job_emails[Len(job_emails)].body
        parts == IF msg_detail.parts.t = "arr" THEN msg_detail.parts.v ELSE << >>
        plain == {i \in 1..Len(parts) : parts[i].mimeType = "text/plain"}
    IN  IF plain # {}
          THEN LET first == CHOOSE i \in plain : \A k \in plain : i <= k
               IN  parts[first].data.t = "b64" => body = parts[first].data.v
          ELSE msg_detail.data.t = "b64" => body = msg_detail.data.v

(***************************************************************************)
(* Claims about save_rows and the coordinator                              *)
(***************************************************************************)
\* the columns of emails other than id and created_at agree with a cleaned
\* row
MutableColumnsEqual(e, c) ==
  /\ e.email_num = c.email_num
  /\ e.subject = c.subject
  /\ e.sender = c.from
  /\ e.date_email = c.date_email
  /\ e.date_email_iso = c.date_email_iso
  /\ e.company = c.company
  /\ e.job_title = c.job_title
  /\ e.status = c.status
  /\ e.parsed_date = c.parsed_date
  /\ e.reason = c.reason
  /\ e.error = c.error

\* C13: after a committed save_rows, for every id of the batch, whether or
\* not it was stored before, every mutable column of the stored Email row
\* equals the value of the (last) row the batch carries for that id.
C13_AllColumnsOverwritten ==
  lastResult = "committed" =>
    \A i \in 1..Len(lastRows) :
      (\A j \in (i + 1)..Len(lastRows) : lastRows[j].id # lastRows[i].id) =>
        \E e \in emails :
          /\ e.id = CleanedRow(lastRows[i]).id
          /\ MutableColumnsEqual(e, CleanedRow(lastRows[i]))

(***************************************************************************)
(* Claims about the batches of main                                        *)
(***************************************************************************)
\* C14: when a batch has written its checkpoint, next_page_token.txt holds
\* the token this batch's fetch returned and last_processed_id.txt holds the
\* id of the last-listed message of the batch.
C14_CheckpointHoldsBatchEnd ==
  mpc = "sleep" =>
    /\ StoredValue(next_page_token_txt) = new_page_token
    /\ Len(fetched) > 0 =>
         StoredValue(last_processed_id_txt) = PyStr(FetchedMail(Len(fetched)).id)

\* the sentinel stands at or before position i of the fetched list
SentinelUpTo(i) ==
  \E k \in 1..i : Truthy(last_id) /\ FetchedMail(k).id = last_id.v

\* C15: the sentinel is what last_processed_id.txt holds and the start token
\* what next_page_token.txt holds, none when the file is absent or empty;
\* no message at or after the first occurrence of the sentinel in the
\* fetched list is queued, counted as skipped, extracted or put into a row,
\* and every message before it is queued or counted as skipped.
C15_EarlyStopSentinel ==
  /\ mpc = "extract" =>
       /\ last_id = StoredValue(last_processed_id_txt)
       /\ last_processed_id_txt \in {PyNone, PyStr(<< >>)} => last_id = PyNone
       /\ start_page_token = StoredValue(next_page_token_txt)
       /\ next_page_token_txt \in {PyNone, PyStr(<< >>)} => start_page_token = PyNone
  /\ \A i \in 1..Len(fetched) :
       SentinelUpTo(i) =>
         /\ i \notin submitted
         /\ \A k \in 1..Len(emails_to_process) : emails_to_process[k].idx # i
         /\ \A k \in 1..Len(output_rows) : output_rows[k].email_num # PyNum(i)
  /\ mpc \in {"extract", "write_id", "write_token", "sleep", "crashed"} =>
       Len(emails_to_process) + skipped_blacklist + skipped_prefilter
         = Cardinality({i \in 1..Len(fetched) : ~SentinelUpTo(i)})

\* a second batch that read an empty next_page_token.txt and the id the
\* first batch wrote, met that id after one message and saved that message
C15_Witness ==
  /\ batchNo = 2
  /\ mpc = "write_id"
  /\ next_page_token_txt = PyStr(<< >>)
  /\ Len(fetched) = 2
  /\ SentinelUpTo(2) /\ ~SentinelUpTo(1)
  /\ Len(output_rows) = 1

\* the steps main takes from phase to phase: fetch and filter, extract,
\* persist, checkpoint (the two files), sleep, and round again
PhaseOrder ==
  { <<"start", "extract">>, <<"extract", "write_id">>, <<"extract", "write_token">>,
    <<"write_id", "write_token">>, <<"write_token", "sleep">>, <<"sleep", "start">> }

\* C16: within one execution of the process the phases follow one another
\* in the order fetch, filter, extract, persist, checkpoint, sleep: the
\* worker runs and results are collected in the extract phase only, the
\* tables change only on leaving it, the checkpoint files change only in the
\* checkpoint phase, both writes are done when main sleeps, and the next
\* fetch starts from the sleep only.
C16_PhasesInOrder ==
  [][/\ mpc' # mpc =>
          \/ <<mpc, mpc'>> \in PhaseOrder
          \/ mpc' \in {"crashed", "killed"}
          \/ mpc \in {"crashed", "killed"} /\ mpc' = "start"
     /\ (mpc' \in {"write_id", "write_token", "sleep"}) =>
          /\ xpc' = "idle"
          /\ completed' = {}
          /\ nextTask' = Len(emails_to_process') + 1
     /\ (mpc \notin {"extract", "crashed"} /\ mpc' \notin {"killed", "start"}) =>
          UNCHANGED <<extractVars, completed, output_rows>>
     /\ (mpc # "extract" \/ mpc' = "extract") =>
          UNCHANGED <<emails, applications, seq>>
     /\ (mpc' # "killed" /\ last_processed_id_txt' # last_processed_id_txt) =>
          mpc = "write_id"
     /\ (mpc' # "killed" /\ next_page_token_txt' # next_page_token_txt) =>
          mpc = "write_token"
     /\ mpc' = "sleep" => next_page_token_txt' = Or(new_page_token', PyStr(<< >>))
    ]_vars

\* the second batch of an execution is in its extract phase, after the
\* first batch wrote both checkpoint files
C16_Witness ==
  /\ batchNo = 2
  /\ mpc = "extract"
  /\ next_page_token_txt = PyStr(<<"t", "1">>)
  /\ last_processed_id_txt = PyStr(Str.m1)
  /\ xpc = "loop"

\* the batch is over: main has left the executor, normally or on an
\* exception, and the worker has run every submitted task
BatchOver ==
  /\ mpc \in {"write_id", "write_token", "sleep", "crashed"}
  /\ xpc = "idle"
  /\ nextTask \notin 1..Len(emails_to_process)

\* C17: whatever the model returns or raises for one candidate, once the
\* batch is over (and save_rows itself did not fail) every candidate's
\* result has been collected and every relevant result collected has been
\* persisted.
C17_SiblingsUnaffected ==
  (BatchOver /\ lastResult # "rolledback") =>
    /\ completed = {}
    /\ \A k \in 1..Len(output_rows) :
         \E e \in emails : e.id = output_rows[k].id

\* C18: the tables change, and save_rows is called, only in a step of the
\* coordinator that leaves the extract phase, taken when the worker is idle,
\* every submitted task has run and every future has been collected; the
\* steps of the worker leave the tables alone.
C18_OnlyCoordinatorSavesOnce ==
  [][/\ dbVars' # dbVars =>
          /\ mpc = "extract" /\ mpc' \in {"write_id", "crashed"}
          /\ xpc = "idle"
          /\ nextTask = Len(emails_to_process) + 1
          /\ completed = {}
          /\ UNCHANGED extractVars
     /\ extractVars' # extractVars => UNCHANGED dbVars
    ]_vars

\* the coordinator has saved the rows of two candidates
C18_Witness ==
  /\ mpc = "write_id"
  /\ Len(output_rows) = 2
  /\ lastResult = "committed"
  /\ lastRows = output_rows

\* next_page_token.txt holds the token of the batch's fetch only if the
\* batch had no rows or its save_rows has committed them
TokenFollowsCommit ==
  (Truthy(new_page_token) /\ next_page_token_txt = new_page_token) =>
    \/ Len(output_rows) = 0
    \/ lastResult = "committed" /\ lastRows = output_rows

\* C19: a kill at any point of a batch, inside save_rows and inside the
\* writing of a checkpoint file included, leaves the rows of emails and
\* applications as they were committed, and next_page_token.txt never holds
\* the token a batch's fetch returned before that batch's save_rows has
\* committed (or the batch had no rows to save).
C19_KillKeepsCheckpointValid ==
  [][/\ mpc' = "killed" => UNCHANGED <<emails, applications, seq>>
     /\ TokenFollowsCommit'
    ]_vars

\* the second batch was killed inside save_rows, the rows of the first
\* batch being stored and its token written
C19_Witness ==
  /\ mpc = "killed"
  /\ batchNo = 2
  /\ lastResult = "rolledback"
  /\ ranStatements > 0
  /\ emails # {}
  /\ next_page_token_txt = PyStr(<<"t", "1">>)

(***************************************************************************)
(* Claims about clean_status, continued                                    *)
(***************************************************************************)
\* C20: for every string, clean_status gives the STATUS_MAP entry of the
\* string trimmed and lowercased, "unknown" when there is none; the same
\* string upper-cased or wrapped in whitespace is normalised alike;
\* "Interview Scheduled" gives "interview", "xyz-unexpected" gives "unknown".
C20_TrimmedAndCaseInsensitive ==
  (normalized # NotRun /\ rawIn.t = "str") =>
    /\ normalized = DictGet(STATUS_MAP, Lower(Strip(rawIn.v)), s_unknown)
    /\ normalized = clean_status(PyStr(Upper(rawIn.v)))
    /\ normalized = clean_status(PyStr(<<" ", "\t">> \o rawIn.v \o <<"\n">>))
    /\ rawIn.v = Str.Interview_Scheduled => normalized = s_interview
    /\ rawIn.v = Str.xyz_unexpected => normalized = s_unknown

\* "Interview Scheduled" has been normalised to "interview"
C20_Witness ==
  /\ rawIn = PyStr(Str.Interview_Scheduled)
  /\ normalized = s_interview

(***************************************************************************)
(* Claims about the rows of applications                                   *)
(***************************************************************************)
\* C21: every row of applications has a canonical status: one of applied,
\* interview, offer, rejected, unknown.
C21_StoredStatusCanonical ==
  \A a \in applications : a.status.t = "str" /\ a.status.v \in CANONICAL

\* the six fields an Application row shares with its Email row are equal
FlatFieldsEqual(a, e) ==
  /\ a.company = e.company
  /\ a.job_title = e.job_title
  /\ a.status = e.status
  /\ a.parsed_date = e.parsed_date
  /\ a.reason = e.reason
  /\ a.error = e.error

\* C22: after save_rows, for every row of the batch that carries no
\* applications, exactly one Application row is stored for its email id,
\* and its company, job_title, status, parsed_date, reason and error are
\* those of the Email row stored for that id.
C22_OneRowFromFlatFields ==
  lastResult = "committed" =>
    \A i \in 1..Len(lastRows) :
      Len(lastRows[i].applications) = 0 =>
        /\ Cardinality(AppsFor(applications, lastRows[i].id)) = 1
        /\ \A a \in AppsFor(applications, lastRows[i].id) :
             \E e \in emails : e.id = lastRows[i].id /\ FlatFieldsEqual(a, e)

(***************************************************************************)
(* Claims about the collection of results                                  *)
(***************************************************************************)
\* C23: when the coordinator appends the row of a relevant result, a result
\* whose jobs value is absent, an empty list or no list and which has a
\* non-empty company, job_title or status gives exactly one job mention,
\* built from the result's own company, job_title, status and date; a
\* result with a non-empty jobs list gives one mention per entry of the
\* list, built from the entry and not from the result's own fields.
C23_FlatFieldsWrapped ==
  [][\A f \in completed \ completed' :
       Len(output_rows') = Len(output_rows) + 1 =>
         LET r      == f.llm_result
             apps   == output_rows'[Len(output_rows')].applications
             given  == Get(r, Key.jobs, PyNone)
             listed == IF given.t = "arr" THEN given.v ELSE << >>
             empty  == PyStr(<< >>)
         IN  /\ (/\ Len(listed) = 0
                 /\ \E k \in {Key.company, Key.job_title, Key.status} :
                      Truthy(Get(r, k, PyNone)))
                  => /\ Len(apps) = 1
                     /\ apps[1].company = Get(r, Key.company, empty)
                     /\ apps[1].job_title = Get(r, Key.job_title, empty)
                     /\ apps[1].status = PyStr(clean_status(Get(r, Key.status, empty)))
                     /\ apps[1].parsed_date = Get(r, Key.date, empty)
             /\ Len(listed) > 0
                  => /\ Len(apps) = Len(listed)
                     /\ \A j \in 1..Len(listed) :
                          /\ apps[j].company = Get(listed[j], Key.company, empty)
                          /\ apps[j].job_title = Get(listed[j], Key.job_title, empty)
                          /\ apps[j].status =
                               PyStr(clean_status(Get(listed[j], Key.status, empty)))
                          /\ apps[j].parsed_date = Get(listed[j], Key.date, empty)
    ]_vars

\* the rows of two results have been appended: one with an empty jobs list
\* beside a company and a date, one with a job mention beside a company and
\* a status of its own
C23_Witness ==
  /\ Len(output_rows) = 2
  /\ output_rows[1].applications =
       << Mention(PyStr(Str.Beta), PyStr(<< >>), s_unknown, PyStr(Str.date1),
                  PyStr(<< >>), PyStr(<< >>)) >>
  /\ output_rows[2].applications =
       << Mention(PyStr(Str.Acme), PyStr(<< >>), s_applied, PyStr(<< >>),
                  PyStr(<< >>), PyStr(<< >>)) >>

\* C25: a collected result with relevant = false, every failure result
\* included, adds no row to output_rows; and when the batch is persisted,
\* the Email row and the Application rows stored for the id of a fetched
\* message that has no row in output_rows are those stored before.
C25_NotRelevantLeavesRowsAlone ==
  [][/\ (mpc = "extract" /\ mpc' = "extract") =>
          \A f \in completed \ completed' :
            (/\ f.llm_result.t = "obj"
             /\ Get(f.llm_result, Key.relevant, PyBool(TRUE)) = PyBool(FALSE))
              => output_rows' = output_rows
     /\ (mpc = "extract" /\ mpc' \in {"write_id", "write_token"}) =>
          \A i \in 1..Len(fetched) :
            (\A k \in 1..Len(output_rows) : output_rows[k].id # PyStr(FetchedMail(i).id))
              => /\ {e \in emails' : e.id = PyStr(FetchedMail(i).id)}
                      = {e \in emails : e.id = PyStr(FetchedMail(i).id)}
                 /\ AppsFor(applications', PyStr(FetchedMail(i).id))
                      = AppsFor(applications, PyStr(FetchedMail(i).id))
    ]_vars

\* a second batch found m1 not relevant and saved m2, rows being stored
\* for m1 by the first batch
C25_Witness ==
  /\ batchNo = 2
  /\ mpc = "write_id"
  /\ fetched = <<1, 2>>
  /\ skipped_not_relevant = 1
  /\ Len(output_rows) = 1
  /\ output_rows[1].id = PyStr(Str.m2)
  /\ lastResult = "committed"
  /\ \E e \in emails : e.id = PyStr(Str.m1)
  /\ \E a \in applications : a.email_id = PyStr(Str.m1) /\ a.id = 1

\* C26: when a batch has come to its end, the messages fetched before the
\* first occurrence of the sentinel (all of them when it does not occur)
\* are as many as the blacklist skips, the prefilter skips, the results
\* found not relevant and the rows saved together, and
\* extract_job_status_claude was called once for each of the last two.
C26_EveryMessageCountedOnce ==
  mpc \in {"write_id", "write_token", "sleep"} =>
    /\ skipped_blacklist + skipped_prefilter + skipped_not_relevant + Len(output_rows)
         = Cardinality({i \in 1..Len(fetched) : ~SentinelUpTo(i)})
    /\ Cardinality(submitted) = skipped_not_relevant + Len(output_rows)

\* a batch of two messages has come to its end: the second was the
\* sentinel, the first was found not relevant
C26_Witness ==
  /\ mpc = "sleep"
  /\ Len(fetched) = 2
  /\ SentinelUpTo(2) /\ ~SentinelUpTo(1)
  /\ skipped_not_relevant = 1
  /\ Cardinality(submitted) = 1

(***************************************************************************)
(* Claims about the tables, continued                                      *)
(***************************************************************************)
\* C27: whatever calls of save_rows have returned or failed, every row of
\* applications carries the id of a row of emails in email_id, and every
\* row of emails has at least one row of applications.
C27_ReferentialIntegrity ==
  /\ \A a \in applications : \E e \in emails : e.id = a.email_id
  /\ \A e \in emails : \E a \in applications : a.email_id = e.id

\* two emails are stored, and a later call failed after an upsert and a
\* delete had run
C27_Witness ==
  /\ Cardinality(emails) = 2
  /\ lastResult = "rolledback"
  /\ ranStatements = 2
  /\ Cardinality(applications) >= 3

\* the batches that hold the rows of `rows` in another order
Reorderings(rows) ==
  {AsTuple([i \in 1..Len(rows) |-> rows[p[i]]]) : p \in Permutations(1..Len(rows))}

\* C28: when the batch that is persisted carries pairwise distinct ids, the
\* rows of emails and, up to surrogate ids, the rows of applications are
\* those save_rows leaves for the same rows in any other order, that is,
\* for any other order in which the results could have been collected.
C28_CollectionOrderIrrelevant ==
  [][(/\ mpc = "extract" /\ mpc' = "write_id"
      /\ \A i, j \in 1..Len(output_rows) :
           output_rows[i].id = output_rows[j].id => i = j) =>
       \A other \in Reorderings(output_rows) :
         LET d == Exec(DbNow, Statements(other), Len(Statements(other)), clock')
         IN  /\ d.emails = emails'
             /\ ContentCounts(d.applications) = ContentCounts(applications')
    ]_vars

\* the rows of two messages were collected in the reverse of the order of
\* their submission and saved
C28_Witness ==
  /\ mpc = "write_id"
  /\ lastResult = "committed"
  /\ Len(output_rows) = 2
  /\ output_rows[1].id # output_rows[2].id
  /\ output_rows[1].email_num = PyNum(2)
  /\ Len(output_rows[1].applications) # Len(output_rows[2].applications)

\* C29: after save_rows on a batch that carries an email id in two rows,
\* the Application rows stored for that id are the applications of one of
\* the rows carrying it, each stored once, and the Email row stored for
\* the id has that row's subject, company, job_title, status, parsed_date,
\* reason and error.
C29_DuplicateIdKeepsOneRow ==
  lastResult = "committed" =>
    \A i \in 1..Len(lastRows) :
      Cardinality(Positions(lastRows, lastRows[i].id)) > 1 =>
        \E k \in Positions(lastRows, lastRows[i].id) :
          /\ {AppContent(a) : a \in AppsFor(applications, lastRows[i].id)}
               = ExpectedContents(<<lastRows[k]>>, lastRows[i].id)
          /\ Cardinality(AppsFor(applications, lastRows[i].id))
               = Cardinality(ExpectedContents(<<lastRows[k]>>, lastRows[i].id))
          /\ \E e \in emails :
               /\ e.id = lastRows[i].id
               /\ e.subject = CleanedRow(lastRows[k]).subject
               /\ FlatFieldsEqual(e, CleanedRow(lastRows[k]))
====
